---- MODULE Spec2Model ----
(***************************************************************************)
(* Proxy lifecycle supervisor of autodl-instance.                          *)
(*                                                                         *)
(*   src/src/lib/network/proxy/mihomo.py     MihomoBackend (start / stop / *)
(*                                           is_running / health_check)    *)
(*   src/src/lib/network/proxy/installer.py  install_mihomo                *)
(*   src/src/lib/network/proxy/config.py     download_subscription,        *)
(*                                           patch_config                  *)
(*   src/src/lib/network/manager.py          NetworkManager                *)
(*   src/src/lib/network/turbo.py            load_autodl_turbo             *)
(*   src/src/main.py, src/src/shutdown.py    execute, shutdown main        *)
(*                                                                         *)
(* Spec          the supervisor driven by a caller that issues start() and *)
(*               stop() one at a time, in an operating system where the    *)
(*               engine may exit or open its port at any moment and        *)
(*               process ids are reused by other programs, which may       *)
(*               also take the proxy port.                                 *)
(* SpecOrch      one NetworkManager.setup() run, its start stage being the *)
(*               supervisor's start() above.                               *)
(* SpecOrchIO    SpecOrch with file copies that may raise OSError.         *)
(* SpecShutdown  shutdown.py: setup, the sync pipeline, stop_proxy.        *)
(* SpecFetch     download_subscription, one transport attempt per step.    *)
(* SpecPatch     patch_config applied to YAML documents.                   *)
(* SpecInstall   install_mihomo, one step of its try block per step.       *)
(* SpecPipeline  execute() of main.py over the plugin pipeline.            *)
(* SpecSession   one process after setup(): further setup() calls,         *)
(*               sync_config(), the engine writing cache.db.               *)
(* SpecRace      two processes inside start() at the same time.            *)
(*                                                                         *)
(* Faults modelled: signalling errors (ProcessLookupError,                 *)
(* PermissionError), a spawn that raises, an engine that exits or never    *)
(* opens its port, network failures of install and fetch, artifacts that   *)
(* fail a check, plugins that raise.  Writes to the runtime directory are  *)
(* taken to succeed except in SpecOrchIO.                                  *)
(***************************************************************************)
EXTENDS Integers, Sequences, FiniteSets, TLC

\* ---------------------------------------------------------------- bounds
MaxPid == 2          \* process ids 1..MaxPid exist in the system
PortPolls == 2       \* probes _wait_for_port makes before its deadline
MaxAgain == 2        \* setup() calls followed after the first has returned
MaxSyncs == 2        \* sync_config() calls followed in one process

\* ------------------------------------------------------ program constants
ExitPolls == 10      \* mihomo.py:178  for _ in range(10)
MinConfigSize == 100 \* manager.py:85, 160, 190 and config.py:96

Pids == 1..MaxPid

VARIABLES
    \* ---- operating system
    proc,       \* pid -> "free" | "engine" | "zombie" | "foreign" | "denied"
    kids,       \* engine pids that are unreaped children of the calling process
    listener,   \* pid listening on config.proxy_port, 0 when the port is closed
    \* ---- files
    pidfile,    \* config_dir/mihomo.pid
    bin,        \* install_dir/mihomo: "absent" | "other" | "target"
    rt,         \* runtime directory: file name -> content
    bk,         \* backup directory:  file name -> content
    \* ---- the supervisor call in progress
    pc,         \* position inside start()/stop(); "idle" between calls
    op,         \* the top-level call: "none" | "start" | "stop"
    retTo,      \* who called stop(): "caller" | "start"
    n,          \* loop counter of the poll loop in progress
    target,     \* pid stop() read from the PID record
    child,      \* pid start() spawned in this call, 0 before the spawn
    ret,        \* result of the last top-level call
    \* ---- what the call in progress has done (history)
    sig,        \* signals stop() sent with os.kill, in order
    hit,        \* what the pid was when SIGTERM was sent to it
    found,      \* exit polls of stop() that found the process
    sawExit,    \* an exit poll of stop() raised ProcessLookupError
    stopErr,    \* stop() left through `except Exception`
    entryPid,   \* the PID record when stop() was entered
    waitRes,    \* _wait_for_port: "none" | "open" | "timeout"
    childDead,  \* process.poll() found the child exited
    warned,     \* start() logged the port-not-ready warning
    \* ---- the orchestrating process (NetworkManager)
    opc,        \* position inside setup(); "idle" before, "done" after
    stages,     \* stages _setup_proxy has invoked, in order (history)
    environ,    \* os.environ: variable -> value, "" when unset
    subscription_url,   \* secrets.yaml subscription_url, "" when not set
    turbo,      \* /etc/network_turbo: "absent" | "fails" | the set it exports
    backend,    \* self._backend is set
    initialized,\* self._initialized
    healthy,    \* what health_check() returned, "none" before it ran
    failed,     \* the stage whose failure _setup_proxy branched on (history)
    preInject,  \* os.environ when _inject_proxy_env was called (history)
    \* ---- download_subscription in progress
    fpc,        \* position inside download_subscription; "idle" between calls
    attempt,    \* transport attempts made so far (User-Agent x opener)
    fret,       \* what download_subscription returned, "none" before
    fpre,       \* the config file when download_subscription began (history)
    fgot,       \* the response body it accepted and wrote, Absent when none
    tried,      \* requests of the call in progress, in order (history)
    \* ---- patch_config on a document
    doc,        \* the YAML document in the config file
    docPre,     \* the document before the last patch_config (history)
    patchOk,    \* the last patch_config ran to its end: "none" | "yes" | "no"
    \* ---- install_mihomo in progress
    ipc,        \* position inside install_mihomo; "idle" between calls
    version,    \* the target version tag
    binary,     \* install_dir/mihomo
    gz,         \* install_dir/mihomo.gz
    known,      \* _KNOWN_CHECKSUMS has a digest for version and architecture
    netops,     \* network operations of the call in progress
    iret,       \* what install_mihomo returned: "True" | "False", "none" before
    binPre,     \* the binary when the call began (history)
    prevRet,    \* what the call before this one returned (history)
    prevOps,    \* network operations of the call before this one (history)
    artifact,   \* what urlretrieve fetched in this call (history)
    ifail,      \* the step that raised in this call, "none" if none (history)
    \* ---- execute() of main.py in progress
    epc,        \* "idle" | "loop" | "returned" | "exit1" | "raised"
    action,     \* "setup" | "start" | "sync"
    until,      \* --until, "" when not given
    only,       \* --only, "" when not given
    queue,      \* plugins the loop has still to visit
    called,     \* plugins whose method was called, in order (history)
    \* ---- later calls on the NetworkManager of the process
    setups,     \* setup() calls made after the first one returned
    syncs,      \* sync_config() calls made
    lastBackup, \* the last _backup_config or sync_config: what it wrote (history)
    rt0,        \* the runtime directory when the process began (history)
    \* ---- two orchestrating processes, each inside start()
    rpc,        \* process -> its position inside start(); "idle" before, "done" after
    rchild,     \* process -> pid it spawned, 0 before the spawn
    rtarget,    \* process -> pid its stop() read from the PID record
    rret        \* process -> what its start() returned: "True" | "False" | "none"

osVars   == <<proc, kids, listener>>
fileVars == <<pidfile, bin, rt, bk>>
callVars == <<pc, op, retTo, n, target, child, ret>>
histVars == <<sig, hit, found, sawExit, stopErr, entryPid, waitRes, childDead, warned>>
orchVars == <<opc, stages, environ, subscription_url, turbo, backend,
              initialized, healthy,
                   failed, preInject>>
fetchVars == <<fpc, attempt, fret, fpre, fgot, tried>>
patchVars == <<doc, docPre, patchOk>>
instVars == <<ipc, version, binary, gz, known, netops, iret, binPre,
              prevRet, prevOps, artifact, ifail>>
pipeVars == <<epc, action, until, only, queue, called>>
syncVars == <<setups, syncs, lastBackup, rt0>>
raceVars == <<rpc, rchild, rtarget, rret>>
auxVars  == <<fetchVars, patchVars, instVars, pipeVars, syncVars, raceVars>>
vars     == <<osVars, fileVars, callVars, histVars, orchVars, auxVars>>

\* ------------------------------------------------------------------ files
SyncFiles == {"config.yaml", "cache.db"}

\* A file is absent or has a size in bytes and a body; `patched` says that
\* patch_config has rewritten it.
Absent == [size |-> -1, body |-> "-", patched |-> FALSE]
File(sz, b) == [size |-> sz, body |-> b, patched |-> FALSE]
exists(f) == f.size >= 0

\* File sizes around the threshold the code compares config.yaml with.
Small == MinConfigSize - 1
Big == MinConfigSize + 1

bin_path_exists == bin # "absent"
config_file_exists == exists(rt["config.yaml"])

\* The PID record: absent, unreadable text, or a process id.
NoPidFile == [kind |-> "none", pid |-> 0]
BadPidFile == [kind |-> "bad", pid |-> 0]
PidFile(p) == [kind |-> "pid", pid |-> p]

\* _read_pid: None (0 here) when the file is missing or does not parse.
read_pid == IF pidfile.kind = "pid" THEN pidfile.pid ELSE 0

\* os.kill(pid, sig): the error it raises, by what the pid is.
kill_error(p) ==
    CASE proc[p] = "free"   -> "ProcessLookupError"
      [] proc[p] = "denied" -> "PermissionError"
      [] OTHER              -> "ok"

\* The process table after pid p dies: an unreaped child stays as a zombie.
died(p) == [proc EXCEPT ![p] = IF p \in kids THEN "zombie" ELSE "free"]

\* ------------------------------------------------- MihomoBackend.is_running
\* os.kill(pid, 0) succeeds for any existing process the caller may signal,
\* a zombie included; ProcessLookupError and PermissionError mean False.
is_running == read_pid # 0 /\ kill_error(read_pid) = "ok"

\* ------------------------------------------------------- MihomoBackend.stop
\* stop() hands its result back: to start() when start() called it, else to
\* the caller.
stop_return(r) ==
    /\ stopErr' = ~r
    /\ IF retTo = "start"
          THEN pc' = "start_wait_port_free" /\ ret' = ret
          ELSE pc' = "idle" /\ ret' = r

enter_stop(from) ==
    /\ pc' = "stop_read"
    /\ retTo' = from
    /\ sig' = <<>>
    /\ hit' = "none"
    /\ found' = 0
    /\ sawExit' = FALSE
    /\ stopErr' = FALSE
    /\ entryPid' = pidfile
    /\ target' = 0
    /\ n' = 0

\* stop(), called by the caller.
call_stop ==
    /\ pc = "idle"
    /\ enter_stop("caller")
    /\ op' = "stop"
    /\ UNCHANGED <<osVars, fileVars, orchVars, child, ret, waitRes, childDead, warned>>
    /\ UNCHANGED auxVars

\* stop_read with a fault: unlink() without missing_ok, which raises when there
\* is no record to remove.
stop_read_strict_unlink ==
    /\ pc = "stop_read"
    /\ IF read_pid = 0
          THEN /\ pidfile' = NoPidFile
               /\ stop_return(pidfile # NoPidFile)
               /\ UNCHANGED target
          ELSE /\ target' = read_pid
               /\ pc' = "stop_sigterm"
               /\ UNCHANGED <<pidfile, ret, stopErr>>
    /\ UNCHANGED <<osVars, bin, rt, bk, orchVars, op, retTo, n, child,
                   sig, hit, found, sawExit, entryPid, waitRes, childDead, warned>>
    /\ UNCHANGED auxVars

\* pid = self._read_pid(); no pid: unlink the record and return True.
stop_read ==
    /\ pc = "stop_read"
    /\ IF read_pid = 0
          THEN /\ pidfile' = NoPidFile
               /\ stop_return(TRUE)
               /\ UNCHANGED target
          ELSE /\ target' = read_pid
               /\ pc' = "stop_sigterm"
               /\ UNCHANGED <<pidfile, ret, stopErr>>
    /\ UNCHANGED <<osVars, bin, rt, bk, orchVars, op, retTo, n, child,
                   sig, hit, found, sawExit, entryPid, waitRes, childDead, warned>>
    /\ UNCHANGED auxVars

\* os.kill(pid, SIGTERM).  ProcessLookupError: unlink, True.  Any other
\* exception: False, the record stays.  The engine decides by itself whether
\* and when it exits on the signal (engine_exits).
stop_sigterm ==
    /\ pc = "stop_sigterm"
    /\ sig' = Append(sig, "SIGTERM")
    /\ hit' = proc[target]
    /\ CASE kill_error(target) = "ProcessLookupError" ->
              /\ pidfile' = NoPidFile
              /\ stop_return(TRUE)
              /\ UNCHANGED n
         [] kill_error(target) = "PermissionError" ->
              /\ stop_return(FALSE)
              /\ UNCHANGED <<pidfile, n>>
         [] OTHER ->
              /\ n' = 0
              /\ pc' = "stop_poll"
              /\ UNCHANGED <<pidfile, ret, stopErr>>
    /\ UNCHANGED <<osVars, bin, rt, bk, orchVars, op, retTo, target, child,
                   found, sawExit, entryPid, waitRes, childDead, warned>>
    /\ UNCHANGED auxVars

\* stop_poll with a fault: the loop gives up one poll early.
stop_poll_early_kill ==
    /\ pc = "stop_poll"
    /\ n < ExitPolls
    /\ CASE kill_error(target) = "ProcessLookupError" ->
              /\ sawExit' = TRUE
              /\ pidfile' = NoPidFile
              /\ stop_return(TRUE)
              /\ UNCHANGED <<n, found>>
         [] kill_error(target) = "PermissionError" ->
              /\ stop_return(FALSE)
              /\ UNCHANGED <<pidfile, sawExit, n, found>>
         [] OTHER ->
              /\ n' = n + 1
              /\ found' = found + 1
              /\ pc' = IF n + 1 = ExitPolls - 1 THEN "stop_sigkill" ELSE "stop_poll"
              /\ UNCHANGED <<pidfile, sawExit, ret, stopErr>>
    /\ UNCHANGED <<osVars, bin, rt, bk, orchVars, op, retTo, target, child,
                   sig, hit, entryPid, waitRes, childDead, warned>>
    /\ UNCHANGED auxVars

\* One round of `for _ in range(10)`: sleep, then os.kill(pid, 0).
\* ProcessLookupError breaks out (unlink, True); after the tenth poll that
\* found the process the loop's else branch sends SIGKILL.
stop_poll ==
    /\ pc = "stop_poll"
    /\ n < ExitPolls
    /\ CASE kill_error(target) = "ProcessLookupError" ->
              /\ sawExit' = TRUE
              /\ pidfile' = NoPidFile
              /\ stop_return(TRUE)
              /\ UNCHANGED <<n, found>>
         [] kill_error(target) = "PermissionError" ->
              /\ stop_return(FALSE)
              /\ UNCHANGED <<pidfile, sawExit, n, found>>
         [] OTHER ->
              /\ n' = n + 1
              /\ found' = found + 1
              /\ pc' = IF n + 1 = ExitPolls THEN "stop_sigkill" ELSE "stop_poll"
              /\ UNCHANGED <<pidfile, sawExit, ret, stopErr>>
    /\ UNCHANGED <<osVars, bin, rt, bk, orchVars, op, retTo, target, child,
                   sig, hit, entryPid, waitRes, childDead, warned>>
    /\ UNCHANGED auxVars

\* os.kill(pid, SIGKILL); ProcessLookupError is passed over.  Then unlink
\* and return True.  A killed engine closes its port.
stop_sigkill ==
    /\ pc = "stop_sigkill"
    /\ sig' = Append(sig, "SIGKILL")
    /\ CASE kill_error(target) = "ProcessLookupError" ->
              /\ pidfile' = NoPidFile
              /\ stop_return(TRUE)
              /\ UNCHANGED osVars
         [] kill_error(target) = "PermissionError" ->
              /\ stop_return(FALSE)
              /\ UNCHANGED <<pidfile, osVars>>
         [] OTHER ->
              /\ proc' = IF proc[target] = "zombie" THEN proc ELSE died(target)
              /\ listener' = IF listener = target THEN 0 ELSE listener
              /\ pidfile' = NoPidFile
              /\ stop_return(TRUE)
              /\ UNCHANGED kids
    /\ UNCHANGED <<bin, rt, bk, orchVars, op, retTo, n, target, child,
                   hit, found, sawExit, entryPid, waitRes, childDead, warned>>
    /\ UNCHANGED auxVars

\* ------------------------------------------------------ MihomoBackend.start
enter_start ==
    /\ pc' = "start_check"
    /\ child' = 0
    /\ waitRes' = "none"
    /\ childDead' = FALSE
    /\ warned' = FALSE
    /\ sig' = <<>>
    /\ hit' = "none"
    /\ found' = 0
    /\ sawExit' = FALSE
    /\ stopErr' = FALSE
    /\ entryPid' = pidfile
    /\ target' = 0
    /\ n' = 0
    /\ retTo' = "caller"

\* start(), called by the caller.
call_start ==
    /\ pc = "idle"
    /\ enter_start
    /\ op' = "start"
    /\ UNCHANGED <<osVars, fileVars, orchVars, ret>>
    /\ UNCHANGED auxVars

\* The binary and the config file must exist, else False.
start_check ==
    /\ pc = "start_check"
    /\ IF ~bin_path_exists \/ ~config_file_exists
          THEN pc' = "idle" /\ ret' = FALSE
          ELSE pc' = "start_is_running" /\ ret' = ret
    /\ UNCHANGED <<osVars, fileVars, orchVars, op, retTo, n, target, child, histVars>>
    /\ UNCHANGED auxVars

\* start_is_running with a fault: start() spawns without stopping the instance
\* that runs.
start_is_running_no_stop ==
    /\ pc = "start_is_running"
    /\ pc' = "start_spawn"
    /\ UNCHANGED <<osVars, fileVars, orchVars, op, retTo, n, target, child, ret,
                   histVars>>
    /\ UNCHANGED auxVars

\* if self.is_running(): self.stop(); _wait_port_free(...)
start_is_running ==
    /\ pc = "start_is_running"
    /\ IF is_running
          THEN enter_stop("start")
          ELSE /\ pc' = "start_spawn"
               /\ UNCHANGED <<retTo, n, target, sig, hit, found, sawExit, stopErr, entryPid>>
    /\ UNCHANGED <<osVars, fileVars, orchVars, op, child, ret, waitRes, childDead, warned>>
    /\ UNCHANGED auxVars

\* _wait_port_free(port, timeout=5): returns when the port is free or the
\* deadline has passed; start() ignores which.
start_wait_port_free ==
    /\ pc = "start_wait_port_free"
    /\ pc' = "start_spawn"
    /\ UNCHANGED <<osVars, fileVars, orchVars, op, retTo, n, target, child, ret, histVars>>
    /\ UNCHANGED auxVars

\* Zombie children of the caller, which subprocess reaps when the next
\* Popen is created.
zombies == {p \in Pids : proc[p] = "zombie"}

\* mkdir, open the log, Popen(...), write the PID record.  Anything raised
\* in between (no pid to fork into, a binary that does not execute) is
\* caught: False.
start_spawn ==
    /\ pc = "start_spawn"
    /\ LET reaped == [p \in Pids |-> IF p \in zombies THEN "free" ELSE proc[p]]
       IN \/ /\ pc' = "idle"
             /\ ret' = FALSE
             /\ UNCHANGED <<proc, kids, pidfile, child, n>>
          \/ \E p \in Pids :
                /\ reaped[p] = "free"
                /\ proc' = [reaped EXCEPT ![p] = "engine"]
                /\ kids' = (kids \ zombies) \cup {p}
                /\ pidfile' = PidFile(p)
                /\ child' = p
                /\ n' = 0
                /\ pc' = "start_wait_for_port"
                /\ ret' = ret
    /\ UNCHANGED <<listener, bin, rt, bk, orchVars, op, retTo, target, histVars>>
    /\ UNCHANGED auxVars

\* One probe of _wait_for_port(port, timeout=15): a connection means the
\* port is open and start() returns True; the deadline passing without one
\* leads to process.poll().
start_wait_for_port ==
    /\ pc = "start_wait_for_port"
    /\ n < PortPolls
    /\ IF listener # 0
          THEN /\ waitRes' = "open"
               /\ pc' = "idle"
               /\ ret' = TRUE
               /\ UNCHANGED n
          ELSE /\ n' = n + 1
               /\ pc' = IF n + 1 = PortPolls THEN "start_poll_child"
                                             ELSE "start_wait_for_port"
               /\ waitRes' = IF n + 1 = PortPolls THEN "timeout" ELSE waitRes
               /\ ret' = ret
    /\ UNCHANGED <<osVars, fileVars, orchVars, op, retTo, target, child,
                   sig, hit, found, sawExit, stopErr, entryPid, childDead, warned>>
    /\ UNCHANGED auxVars

\* start_poll_child with a fault: a port that is not ready counts as a failed
\* start whether or not the child lives.
start_poll_child_strict ==
    /\ pc = "start_poll_child"
    /\ IF proc[child] = "zombie"
          THEN /\ proc' = [proc EXCEPT ![child] = "free"]
               /\ kids' = kids \ {child}
               /\ childDead' = TRUE
          ELSE UNCHANGED <<proc, kids, childDead>>
    /\ ret' = FALSE
    /\ pc' = "idle"
    /\ UNCHANGED <<listener, fileVars, orchVars, op, retTo, n, target, child,
                   sig, hit, found, sawExit, stopErr, entryPid, waitRes, warned>>
    /\ UNCHANGED auxVars

\* process.poll() after the timeout: an exited child is reaped and start()
\* returns False; a live one gets the warning and True.
start_poll_child ==
    /\ pc = "start_poll_child"
    /\ IF proc[child] = "zombie"
          THEN /\ proc' = [proc EXCEPT ![child] = "free"]
               /\ kids' = kids \ {child}
               /\ childDead' = TRUE
               /\ ret' = FALSE
               /\ UNCHANGED warned
          ELSE /\ warned' = TRUE
               /\ ret' = TRUE
               /\ UNCHANGED <<proc, kids, childDead>>
    /\ pc' = "idle"
    /\ UNCHANGED <<listener, fileVars, orchVars, op, retTo, n, target, child,
                   sig, hit, found, sawExit, stopErr, entryPid, waitRes>>
    /\ UNCHANGED auxVars

\* -------------------------------------------------------- operating system
\* The engine exits (on a signal it honours, on a bad config, on a crash).
engine_exits(p) ==
    /\ proc[p] = "engine"
    /\ proc' = died(p)
    /\ listener' = IF listener = p THEN 0 ELSE listener
    /\ UNCHANGED <<kids, fileVars, orchVars, callVars, histVars>>
    /\ UNCHANGED auxVars

\* The engine opens the proxy port.
engine_listens(p) ==
    /\ proc[p] = "engine"
    /\ listener = 0
    /\ listener' = p
    /\ UNCHANGED <<proc, kids, fileVars, orchVars, callVars, histVars>>
    /\ UNCHANGED auxVars

\* A free process id is given to another program, one the caller may signal
\* ("foreign") or one of another user ("denied").
pid_reused(p) ==
    /\ proc[p] = "free"
    /\ \E k \in {"foreign", "denied"} : proc' = [proc EXCEPT ![p] = k]
    /\ UNCHANGED <<kids, listener, fileVars, orchVars, callVars, histVars>>
    /\ UNCHANGED auxVars

other_exits(p) ==
    /\ proc[p] \in {"foreign", "denied"}
    /\ proc' = [proc EXCEPT ![p] = "free"]
    /\ listener' = IF listener = p THEN 0 ELSE listener
    /\ UNCHANGED <<kids, fileVars, orchVars, callVars, histVars>>
    /\ UNCHANGED auxVars

\* Another program takes the proxy port: socket.create_connection in
\* _wait_for_port connects to whoever listens there.
other_listens(p) ==
    /\ proc[p] \in {"foreign", "denied"}
    /\ listener = 0
    /\ listener' = p
    /\ UNCHANGED <<proc, kids, fileVars, orchVars, callVars, histVars>>
    /\ UNCHANGED auxVars

\* The calling process ends; its children are re-parented, its zombies
\* reaped.  The next call comes from a new process.
caller_exits ==
    /\ pc = "idle"
    /\ kids # {}
    /\ kids' = {}
    /\ proc' = [p \in Pids |-> IF proc[p] = "zombie" THEN "free" ELSE proc[p]]
    /\ UNCHANGED <<listener, fileVars, orchVars, callVars, histVars>>
    /\ UNCHANGED auxVars

\* ------------------------------------------------------------ environment
EnvKeys == {"http_proxy", "https_proxy", "HTTP_PROXY", "HTTPS_PROXY",
            "no_proxy", "NO_PROXY"}
ProxyKeys == {"http_proxy", "https_proxy", "HTTP_PROXY", "HTTPS_PROXY"}

\* ProxyConfig.proxy_url and the no_proxy list of _inject_proxy_env.
proxy_url == "http://127.0.0.1:<proxy_port>"
no_proxy == "localhost,127.0.0.1,10.0.0.0/8,172.16.0.0/12,192.168.0.0/16"

\* inject_proxy_env with a fault: setdefault instead of assignment.
inject_proxy_env_setdefault(e) ==
    [k \in EnvKeys |-> IF e[k] # "" THEN e[k]
                       ELSE IF k \in ProxyKeys THEN proxy_url ELSE no_proxy]

\* _inject_proxy_env(proxy_url): os.environ afterwards.
inject_proxy_env(e) ==
    [k \in EnvKeys |-> IF k \in ProxyKeys THEN proxy_url ELSE no_proxy]

\* The variables /etc/network_turbo exports, by the kind of script.
turbo_exports ==
    CASE turbo = "proxy" -> ProxyKeys
      [] turbo = "all"   -> EnvKeys
      [] OTHER           -> {}

\* load_autodl_turbo: os.environ afterwards.  A proxy variable already set
\* ends it at once; so does a missing script; a script that fails is caught.
\* Otherwise every AUTODL_TURBO_KEYS variable of the script's environment is
\* written back, which changes the ones the script exports.
load_autodl_turbo(e) ==
    IF e["http_proxy"] # "" \/ e["HTTP_PROXY"] # "" THEN e
    ELSE IF turbo \in {"absent", "fails"} THEN e
    ELSE [k \in EnvKeys |-> IF k \in turbo_exports THEN "turbo" ELSE e[k]]

\* ------------------------------------------------------------ supervisor
ConfigA == File(Big, "A")

InitOS ==
    /\ proc = [p \in Pids |-> "free"]
    /\ kids = {}
    /\ listener = 0

InitCall ==
    /\ pc = "idle"
    /\ op = "none"
    /\ retTo = "caller"
    /\ n = 0
    /\ target = 0
    /\ child = 0
    /\ ret = FALSE
    /\ sig = <<>>
    /\ hit = "none"
    /\ found = 0
    /\ sawExit = FALSE
    /\ stopErr = FALSE
    /\ entryPid = NoPidFile
    /\ waitRes = "none"
    /\ childDead = FALSE
    /\ warned = FALSE

\* The supervisor alone: no orchestrating process takes part.
InitNoOrch ==
    /\ opc = "idle"
    /\ stages = <<>>
    /\ environ = [k \in EnvKeys |-> ""]
    /\ subscription_url = ""
    /\ turbo = "absent"
    /\ backend = FALSE
    /\ initialized = FALSE
    /\ healthy = "none"
    /\ failed = "none"
    /\ preInject = environ

\* No download_subscription call of its own takes part.
InitNoFetch ==
    /\ fpc = "idle"
    /\ attempt = 0
    /\ fret = "none"
    /\ fpre = Absent
    /\ fgot = Absent
    /\ tried = <<>>

\* No document is patched.
InitNoPatch ==
    /\ doc = "none"
    /\ docPre = "none"
    /\ patchOk = "none"

\* install_dir/mihomo: absent, a program that runs and reports a version
\* tag, or a file that does not execute.
NoBinary == [state |-> "absent", tag |-> <<>>]

\* install_dir/mihomo.gz: whether its SHA-256 is the expected one, whether
\* it decompresses, and whether what it decompresses to executes.
NoGz == [present |-> FALSE, sha_ok |-> FALSE, gzip_ok |-> FALSE, runs |-> FALSE]

\* No install_mihomo call of its own takes part.
InitNoInstall ==
    /\ ipc = "idle"
    /\ version = <<>>
    /\ binary = NoBinary
    /\ gz = NoGz
    /\ known = FALSE
    /\ netops = 0
    /\ iret = "none"
    /\ binPre = NoBinary
    /\ prevRet = "none"
    /\ prevOps = 0
    /\ artifact = NoGz
    /\ ifail = "none"

\* No plugin pipeline runs.
InitNoPipeline ==
    /\ epc = "idle"
    /\ action = "none"
    /\ until = ""
    /\ only = ""
    /\ queue = <<>>
    /\ called = <<>>

\* What a backup operation did: the files it wrote, those of them whose
\* copy in the backup was byte-identical, the non-empty runtime files it
\* left without an identical copy, and whether it got to its copy loop.
NoBackupOp == [op |-> "none", wrote |-> {}, same |-> {}, missed |-> {},
               proceeded |-> FALSE]

\* No backup operation has run.
InitNoSync ==
    /\ setups = 0
    /\ syncs = 0
    /\ lastBackup = NoBackupOp
    /\ rt0 = [f \in SyncFiles |-> Absent]

\* The orchestrating processes setup() may run in at the same time.
Racers == {1, 2}

\* No second process is at work.
InitNoRace ==
    /\ rpc = [i \in Racers |-> "idle"]
    /\ rchild = [i \in Racers |-> 0]
    /\ rtarget = [i \in Racers |-> 0]
    /\ rret = [i \in Racers |-> "none"]

InitNoAux ==
    /\ InitNoFetch
    /\ InitNoPatch
    /\ InitNoInstall
    /\ InitNoPipeline
    /\ InitNoSync
    /\ InitNoRace

\* A runtime directory as a booted instance may hold it: with or without the
\* binary and the config, with no PID record, an unreadable one or a stale
\* one.
Init ==
    /\ InitOS
    /\ InitCall
    /\ pidfile \in {NoPidFile, BadPidFile} \cup {PidFile(p) : p \in Pids}
    /\ bin \in {"absent", "target"}
    /\ rt \in {[f \in SyncFiles |-> Absent],
               [f \in SyncFiles |-> IF f = "config.yaml" THEN ConfigA ELSE Absent]}
    /\ bk = [f \in SyncFiles |-> Absent]
    /\ InitNoOrch
    /\ InitNoAux

SupStep ==
    \/ stop_read
    \/ stop_sigterm
    \/ stop_poll
    \/ stop_sigkill
    \/ start_check
    \/ start_is_running
    \/ start_wait_port_free
    \/ start_spawn
    \/ start_wait_for_port
    \/ start_poll_child

OsStep ==
    \/ \E p \in Pids : engine_exits(p)
    \/ \E p \in Pids : engine_listens(p)
    \/ \E p \in Pids : pid_reused(p)
    \/ \E p \in Pids : other_exits(p)
    \/ \E p \in Pids : other_listens(p)
    \/ caller_exits

Next ==
    \/ call_start
    \/ call_stop
    \/ SupStep
    \/ OsStep

Spec == Init /\ [][Next]_vars

\* ---------------------------------------------------- StateSync (manager)
\* _restore_from_backup: the runtime directory afterwards.  Nothing happens
\* unless backup/config.yaml exists with at least MinConfigSize bytes; then
\* every non-empty sync file of the backup is copied over the runtime one.
restore_from_backup ==
    IF ~exists(bk["config.yaml"]) \/ bk["config.yaml"].size < MinConfigSize
    THEN rt
    ELSE [f \in SyncFiles |-> IF exists(bk[f]) /\ bk[f].size > 0 THEN bk[f] ELSE rt[f]]

\* _backup_config: the backup directory afterwards.  Nothing happens unless
\* runtime/config.yaml exists with at least MinConfigSize bytes; then every
\* non-empty sync file of the runtime directory is copied over the backup.
backup_config ==
    IF ~exists(rt["config.yaml"]) \/ rt["config.yaml"].size < MinConfigSize
    THEN bk
    ELSE [f \in SyncFiles |-> IF exists(rt[f]) /\ rt[f].size > 0 THEN rt[f] ELSE bk[f]]

\* The files _backup_config writes: shutil.copy2 for every non-empty sync
\* file, whatever the backup holds.
backup_writes ==
    IF ~exists(rt["config.yaml"]) \/ rt["config.yaml"].size < MinConfigSize
    THEN {}
    ELSE {f \in SyncFiles : exists(rt[f]) /\ rt[f].size > 0}

\* ------------------------------------------------ ConfigAcquirer (config.py)
\* yaml.safe_load gives a mapping the patcher can work on (an empty file
\* loads as None and is taken as {}).
parses(f) == f.body # "junk"

\* patch_config: the file afterwards.  A document that parses is rewritten
\* with the forced keys, which alone exceed MinConfigSize bytes; any
\* exception leaves the file as it was.  (_ensure_geodata then fetches
\* database files, none of them a sync file.)
patch_config(f) ==
    IF parses(f)
    THEN [f EXCEPT !.patched = TRUE,
                   !.size = IF f.size < Big THEN Big ELSE f.size]
    ELSE f

\* Response bodies a subscription server may send that pass the size check.
Payloads == {File(Big, "sub"), File(Big, "junk")}

\* _build_proxy_config() is not None: a subscription URL, or a backup
\* config.yaml of more than MinConfigSize bytes.
has_backup == exists(bk["config.yaml"]) /\ bk["config.yaml"].size > MinConfigSize
proxy_configured == subscription_url # "" \/ has_backup

\* ------------------------------------------- NetworkManager._setup_proxy
log(stage) == stages' = Append(stages, stage)

\* orch_setup with a fault: the chain is entered without looking at the config.
orch_setup_always_proxy ==
    /\ opc = "idle"
    /\ ~initialized
    /\ opc' = "bootstrap"
    /\ UNCHANGED <<osVars, fileVars, callVars, histVars, stages, environ,
                   subscription_url, turbo, backend, initialized, healthy,
                   failed, preInject>>
    /\ UNCHANGED auxVars

\* setup(): nothing when already initialized, else _setup_proxy begins with
\* _build_proxy_config().
orch_setup ==
    /\ opc = "idle"
    /\ ~initialized
    /\ opc' = IF proxy_configured THEN "bootstrap" ELSE "fallback"
    /\ UNCHANGED <<osVars, fileVars, callVars, histVars, stages, environ,
                   subscription_url, turbo, backend, initialized, healthy,
                   failed, preInject>>
    /\ UNCHANGED auxVars

\* load_autodl_turbo(verbose=False) as the bootstrap network.
orch_bootstrap ==
    /\ opc = "bootstrap"
    /\ log("bootstrap")
    /\ environ' = load_autodl_turbo(environ)
    /\ opc' = "install"
    /\ UNCHANGED <<osVars, fileVars, callVars, histVars,
                   subscription_url, turbo, backend, initialized, healthy,
                   failed, preInject>>
    /\ UNCHANGED auxVars

\* orch_install with a fault: after the install the chain goes on with the
\* subscription, the restore left out.
orch_install_skips_restore ==
    /\ opc = "install"
    /\ log("install")
    /\ \/ /\ bin = "target"
          /\ opc' = "acquire"
          /\ UNCHANGED <<bin, failed>>
       \/ /\ bin # "target"
          /\ \/ bin' = "target" /\ opc' = "acquire" /\ UNCHANGED failed
             \/ bin' = "absent" /\ opc' = "fallback" /\ failed' = "install"
    /\ UNCHANGED <<osVars, pidfile, rt, bk, callVars, histVars, environ,
                   subscription_url, turbo, backend, initialized, healthy,
                   preInject>>
    /\ UNCHANGED auxVars

\* backend.install() -> install_mihomo: a binary of the target version is
\* kept; any other is removed and the target downloaded, which either
\* installs it or cleans up and fails.
orch_install ==
    /\ opc = "install"
    /\ log("install")
    /\ \/ /\ bin = "target"
          /\ opc' = "restore"
          /\ UNCHANGED <<bin, failed>>
       \/ /\ bin # "target"
          /\ \/ bin' = "target" /\ opc' = "restore" /\ UNCHANGED failed
             \/ bin' = "absent" /\ opc' = "fallback" /\ failed' = "install"
    /\ UNCHANGED <<osVars, pidfile, rt, bk, callVars, histVars, environ,
                   subscription_url, turbo, backend, initialized, healthy,
                   preInject>>
    /\ UNCHANGED auxVars

\* self._restore_from_backup(config); its result is not looked at.
orch_restore ==
    /\ opc = "restore"
    /\ log("restore")
    /\ rt' = restore_from_backup
    /\ opc' = "acquire"
    /\ UNCHANGED <<osVars, pidfile, bin, bk, callVars, histVars, environ,
                   subscription_url, turbo, backend, initialized, healthy,
                   failed, preInject>>
    /\ UNCHANGED auxVars

\* backend.update_subscription() -> download_subscription: False without a
\* URL; the first accepted response is written and patched; with none, an
\* existing non-empty config file is patched and reused.
orch_acquire ==
    /\ opc = "acquire"
    /\ log("acquire")
    /\ IF subscription_url = ""
          THEN opc' = "fallback" /\ failed' = "acquire" /\ UNCHANGED rt
          ELSE \/ \E body \in Payloads :
                     /\ rt' = [rt EXCEPT !["config.yaml"] = patch_config(body)]
                     /\ opc' = "backup"
                     /\ UNCHANGED failed
               \/ /\ exists(rt["config.yaml"]) /\ rt["config.yaml"].size > 0
                  /\ rt' = [rt EXCEPT !["config.yaml"] = patch_config(@)]
                  /\ opc' = "backup"
                  /\ UNCHANGED failed
               \/ /\ ~(exists(rt["config.yaml"]) /\ rt["config.yaml"].size > 0)
                  /\ opc' = "fallback"
                  /\ failed' = "acquire"
                  /\ UNCHANGED rt
    /\ UNCHANGED <<osVars, pidfile, bin, bk, callVars, histVars, environ,
                   subscription_url, turbo, backend, initialized, healthy,
                   preInject>>
    /\ UNCHANGED auxVars

\* orch_backup with a fault: the stage copies nothing.
orch_backup_copies_nothing ==
    /\ opc = "backup"
    /\ log("backup")
    /\ opc' = "start"
    /\ lastBackup' = [NoBackupOp EXCEPT !.op = "backup"]
    /\ UNCHANGED <<osVars, pidfile, bin, rt, bk, callVars, histVars, environ,
                   subscription_url, turbo, backend, initialized, healthy,
                   failed, preInject>>
    /\ UNCHANGED <<fetchVars, patchVars, instVars, pipeVars, setups, syncs, rt0, raceVars>>

\* self._backup_config(config)
orch_backup ==
    /\ opc = "backup"
    /\ log("backup")
    /\ bk' = backup_config
    /\ opc' = "start"
    /\ lastBackup' = [op |-> "backup", wrote |-> backup_writes,
                      same |-> {f \in backup_writes : bk[f] = rt[f]},
                      missed |-> {}, proceeded |-> backup_writes # {}]
    /\ UNCHANGED <<osVars, pidfile, bin, rt, callVars, histVars, environ,
                   subscription_url, turbo, backend, initialized, healthy,
                   failed, preInject>>
    /\ UNCHANGED <<fetchVars, patchVars, instVars, pipeVars, setups, syncs, rt0, raceVars>>

\* backend.start(): the supervisor's start() runs to its return.
orch_start ==
    /\ opc = "start"
    /\ pc = "idle"
    /\ log("start")
    /\ enter_start
    /\ op' = "start"
    /\ opc' = "started"
    /\ UNCHANGED <<osVars, fileVars, ret, environ,
                   subscription_url, turbo, backend, initialized, healthy,
                   failed, preInject>>
    /\ UNCHANGED auxVars

\* orch_started with a fault: the result of start() is not looked at.
orch_started_ignores_failure ==
    /\ opc = "started"
    /\ pc = "idle"
    /\ opc' = "health"
    /\ failed' = IF ret THEN failed ELSE "start"
    /\ UNCHANGED <<osVars, fileVars, callVars, histVars, stages, environ,
                   subscription_url, turbo, backend, initialized, healthy,
                   preInject>>
    /\ UNCHANGED auxVars

\* orch_started with a fault: a start that logged the readiness warning is
\* taken as failed.
orch_started_warning_falls_back ==
    /\ opc = "started"
    /\ pc = "idle"
    /\ opc' = IF ret /\ ~warned THEN "health" ELSE "fallback"
    /\ failed' = IF ret /\ ~warned THEN failed ELSE "start"
    /\ UNCHANGED <<osVars, fileVars, callVars, histVars, stages, environ,
                   subscription_url, turbo, backend, initialized, healthy,
                   preInject>>
    /\ UNCHANGED auxVars

\* if not backend.start(): fall back, else go on to the health check.
orch_started ==
    /\ opc = "started"
    /\ pc = "idle"
    /\ opc' = IF ret THEN "health" ELSE "fallback"
    /\ failed' = IF ret THEN failed ELSE "start"
    /\ UNCHANGED <<osVars, fileVars, callVars, histVars, stages, environ,
                   subscription_url, turbo, backend, initialized, healthy,
                   preInject>>
    /\ UNCHANGED auxVars

\* orch_health with a fault: a failed health check takes the fallback.
orch_health_fatal ==
    /\ opc = "health"
    /\ log("health")
    /\ \E h \in BOOLEAN :
          /\ h => (is_running /\ listener # 0)
          /\ healthy' = IF h THEN "yes" ELSE "no"
          /\ opc' = IF h THEN "inject" ELSE "fallback"
    /\ UNCHANGED <<osVars, fileVars, callVars, histVars, environ,
                   subscription_url, turbo, backend, initialized, failed,
                   preInject>>
    /\ UNCHANGED auxVars

\* backend.health_check(): False unless is_running(); the request through
\* the proxy port needs a listener there and may still fail upstream.  The
\* result is only logged.
orch_health ==
    /\ opc = "health"
    /\ log("health")
    /\ \E h \in BOOLEAN :
          /\ h => (is_running /\ listener # 0)
          /\ healthy' = IF h THEN "yes" ELSE "no"
    /\ opc' = "inject"
    /\ UNCHANGED <<osVars, fileVars, callVars, histVars, environ,
                   subscription_url, turbo, backend, initialized, failed,
                   preInject>>
    /\ UNCHANGED auxVars

\* _inject_proxy_env(config.proxy_url); self._backend = backend
orch_inject ==
    /\ opc = "inject"
    /\ log("inject")
    /\ preInject' = environ
    /\ environ' = inject_proxy_env(environ)
    /\ backend' = TRUE
    /\ opc' = "finish"
    /\ UNCHANGED <<osVars, fileVars, callVars, histVars,
                   subscription_url, turbo, initialized, healthy, failed>>
    /\ UNCHANGED auxVars

\* load_autodl_turbo(verbose); return  -- the fallback of every failure and
\* the whole of _setup_proxy when no proxy is configured.
orch_fallback ==
    /\ opc = "fallback"
    /\ log("fallback")
    /\ environ' = load_autodl_turbo(environ)
    /\ opc' = "finish"
    /\ UNCHANGED <<osVars, fileVars, callVars, histVars,
                   subscription_url, turbo, backend, initialized, healthy,
                   failed, preInject>>
    /\ UNCHANGED auxVars

\* Back in setup(): mirror and token variables (none of EnvKeys), then
\* self._initialized = True.
orch_finish ==
    /\ opc = "finish"
    /\ initialized' = TRUE
    /\ opc' = "done"
    /\ UNCHANGED <<osVars, fileVars, callVars, histVars, stages, environ,
                   subscription_url, turbo, backend, healthy, failed, preInject>>
    /\ UNCHANGED auxVars

\* Environments the orchestrating process may inherit.
InheritedEnvs ==
    {[k \in EnvKeys |-> ""],
     [k \in EnvKeys |-> "inherited"],
     [k \in EnvKeys |-> IF k = "HTTP_PROXY" THEN "inherited" ELSE ""],
     [k \in EnvKeys |-> IF k \in {"https_proxy", "no_proxy"} THEN "inherited" ELSE ""]}

\* An instance as setup() may find it: the engine of an earlier orchestrating
\* process may still run (detached, named by the PID record), the runtime and
\* backup directories may hold files of earlier runs.
InitInstance ==
    /\ InitCall
    /\ kids = {}
    /\ bin \in {"absent", "other", "target"}
    /\ rt \in {[f \in SyncFiles |-> IF f = "config.yaml" THEN c ELSE d] :
                  c \in {Absent, File(Big, "old")},
                  d \in {Absent, File(Small, "cache")}}
    /\ bk \in {[f \in SyncFiles |-> IF f = "config.yaml" THEN c ELSE d] :
                  c \in {Absent, File(Small, "bak"), File(MinConfigSize, "bak"),
                         File(Big, "bak")},
                  d \in {Absent, File(Small, "cache0")}}
    /\ \/ /\ proc = [p \in Pids |-> "free"]
          /\ listener = 0
          /\ pidfile \in {NoPidFile, PidFile(1)}
       \/ /\ proc = [p \in Pids |-> IF p = 1 THEN "engine" ELSE "free"]
          /\ listener \in {0, 1}
          /\ pidfile = PidFile(1)
          /\ bin # "absent"
          /\ exists(rt["config.yaml"])
    /\ opc = "idle"
    /\ stages = <<>>
    /\ environ \in InheritedEnvs
    /\ subscription_url \in {"", "url"}
    /\ turbo \in {"absent", "fails", "proxy", "all"}
    /\ backend = FALSE
    /\ initialized = FALSE
    /\ healthy = "none"
    /\ failed = "none"
    /\ preInject = environ

\* One process about to call setup().
InitOrch ==
    /\ InitInstance
    /\ InitNoAux

OrchStep ==
    \/ orch_setup
    \/ orch_bootstrap
    \/ orch_install
    \/ orch_restore
    \/ orch_acquire
    \/ orch_backup
    \/ orch_start
    \/ orch_started
    \/ orch_health
    \/ orch_inject
    \/ orch_fallback
    \/ orch_finish

\* While setup() runs, the engine is what moves beside it.
EngineStep ==
    \/ \E p \in Pids : engine_exits(p)
    \/ \E p \in Pids : engine_listens(p)

NextOrch ==
    \/ OrchStep
    \/ SupStep
    \/ EngineStep

SpecOrch == InitOrch /\ [][NextOrch]_vars

\* ------------------------------------- setup() with failing file copies
\* _SYNC_FILES in the order the copy loops walk it.
SyncOrder == <<"config.yaml", "cache.db">>

\* What shutil.copy2 leaves of a destination it had opened when it failed.
Truncated == File(0, "cut")

\* The copy loop of _restore_from_backup / _backup_config stopped by an
\* OSError: k = 0 is mkdir raising, k > 0 is shutil.copy2 raising on the
\* k-th sync file, which it had opened (cut) or not; the files before it
\* are copied.
copy_interrupted(src, dst, k, cut) ==
    [f \in SyncFiles |->
        IF \E i \in 1..(k - 1) : SyncOrder[i] = f /\ exists(src[f]) /\ src[f].size > 0
        THEN src[f]
        ELSE IF k > 0 /\ SyncOrder[k] = f /\ cut THEN Truncated
        ELSE dst[f]]

\* _restore_from_backup has no handler of its own and _setup_proxy none
\* around it: the OSError leaves setup().
orch_restore_raises ==
    /\ opc = "restore"
    /\ exists(bk["config.yaml"]) /\ bk["config.yaml"].size >= MinConfigSize
    /\ log("restore")
    /\ \E k \in 0..Len(SyncOrder), cut \in BOOLEAN :
          /\ k > 0 => (exists(bk[SyncOrder[k]]) /\ bk[SyncOrder[k]].size > 0)
          /\ k = 0 => ~cut
          /\ rt' = copy_interrupted(bk, rt, k, cut)
    /\ opc' = "raised"
    /\ UNCHANGED <<osVars, pidfile, bin, bk, callVars, histVars, environ,
                   subscription_url, turbo, backend, initialized, healthy,
                   failed, preInject>>
    /\ UNCHANGED auxVars

\* The same inside _backup_config.
orch_backup_raises ==
    /\ opc = "backup"
    /\ exists(rt["config.yaml"]) /\ rt["config.yaml"].size >= MinConfigSize
    /\ log("backup")
    /\ \E k \in 0..Len(SyncOrder), cut \in BOOLEAN :
          /\ k > 0 => (exists(rt[SyncOrder[k]]) /\ rt[SyncOrder[k]].size > 0)
          /\ k = 0 => ~cut
          /\ bk' = copy_interrupted(rt, bk, k, cut)
    /\ opc' = "raised"
    /\ UNCHANGED <<osVars, pidfile, bin, rt, callVars, histVars, environ,
                   subscription_url, turbo, backend, initialized, healthy,
                   failed, preInject>>
    /\ UNCHANGED auxVars

NextOrchIO ==
    \/ OrchStep
    \/ SupStep
    \/ EngineStep
    \/ orch_restore_raises
    \/ orch_backup_raises

SpecOrchIO == InitOrch /\ [][NextOrchIO]_vars

\* ================================================================ claims
engines == {p \in Pids : proc[p] = "engine"}
InStop == pc \in {"stop_read", "stop_sigterm", "stop_poll", "stop_sigkill"}
StartReturned == pc = "idle" /\ op = "start"
StopReturned == pc = "idle" /\ op = "stop"

C2_StopIdempotent ==
    StopReturned =>
        /\ entryPid = NoPidFile => (ret = TRUE /\ sig = <<>> /\ pidfile = NoPidFile)
        /\ ret = TRUE => pidfile = NoPidFile

\* C2 witness: a stop() entered with no PID record has returned.
C2_Witness == StopReturned /\ entryPid = NoPidFile /\ ret = TRUE

C4_NoPidRecordAfterStop == StopReturned => pidfile = NoPidFile

\* C5: start() returns False when the readiness wait timed out and the child
\* had exited, True with the warning when it timed out and the child is
\* alive, and False without spawning or touching the PID record when the
\* binary or the config file is missing.
C5_StartOutcome ==
    StartReturned =>
        /\ (waitRes = "timeout" /\ childDead) => ret = FALSE
        /\ (waitRes = "timeout" /\ ~childDead) => (ret = TRUE /\ warned)
        /\ (~bin_path_exists \/ ~config_file_exists) =>
              (ret = FALSE /\ child = 0 /\ pidfile = entryPid)

\* C5 witness: start() has returned False because its child had exited when
\* the readiness wait timed out.
C5_Witness ==
    /\ StartReturned
    /\ waitRes = "timeout"
    /\ childDead
    /\ ret = FALSE

\* ------------------------------------------------- orchestrator (SpecOrch)
Chain == <<"bootstrap", "install", "restore", "acquire", "backup", "start",
           "health", "inject">>
IsPrefix(a, b) == Len(a) <= Len(b) /\ SubSeq(b, 1, Len(a)) = a
Invoked(stage) == \E i \in 1..Len(stages) : stages[i] = stage
SetupReturned == opc \in {"finish", "done"}
StartSucceeded == Invoked("start") /\ opc # "started" /\ ret = TRUE

\* C6: with no subscription URL and no usable backup config, setup invokes
\* none of install, restore, fetch, backup, start and health check, does not
\* inject the local proxy URL, and runs the acceleration fallback alone.
C6_DisabledProxyOnlyFallback ==
    ~proxy_configured =>
        /\ stages \in {<<>>, <<"fallback">>}
        /\ SetupReturned => stages = <<"fallback">>
        /\ op = "none" /\ healthy = "none" /\ ~backend
        /\ \A k \in EnvKeys : environ[k] # proxy_url

\* C6 witness: setup has returned with no subscription URL and a backup
\* config too small to count.
C6_Witness ==
    /\ opc = "done"
    /\ subscription_url = ""
    /\ exists(bk["config.yaml"])
    /\ ~has_backup

\* C7: once Install, Acquire or Start has reported failure, the only stage
\* invoked after it is the acceleration fallback, the local proxy URL is not
\* injected and no backend handle is kept.
C7_FailureFallsBack ==
    failed # "none" =>
        /\ \/ opc = "fallback" /\ IsPrefix(stages, Chain) /\ stages[Len(stages)] = failed
           \/ /\ SetupReturned
              /\ stages[Len(stages)] = "fallback"
              /\ stages[Len(stages) - 1] = failed
              /\ IsPrefix(SubSeq(stages, 1, Len(stages) - 1), Chain)
        /\ ~Invoked("inject")
        /\ ~backend
        /\ \A k \in EnvKeys : environ[k] # proxy_url

\* C7 witness: setup has returned after start() reported failure.
C7_Witness == opc = "done" /\ failed = "start" /\ ret = FALSE

\* C8: after a successful start the health check's outcome changes nothing:
\* healthy or not, setup returns with the proxy URL injected and the backend
\* handle kept, and has not taken the fallback.
C8_HealthCheckNotFatal ==
    (SetupReturned /\ StartSucceeded) =>
        /\ healthy \in {"yes", "no"}
        /\ backend
        /\ Invoked("inject")
        /\ ~Invoked("fallback")
        /\ failed = "none"

\* C8 witness: setup has returned with the backend kept although the health
\* check failed.
C8_Witness == opc = "done" /\ healthy = "no" /\ backend /\ ret = TRUE

\* C9: with a proxy configured the stages are invoked in the order of Chain,
\* each at most once, the fallback (if any) last; the supervisor is at work
\* only inside the start stage, so no stage begins before start() returned.
C9_StageOrder ==
    /\ \/ IsPrefix(stages, Chain)
       \/ /\ Len(stages) > 0
          /\ stages[Len(stages)] = "fallback"
          /\ IsPrefix(SubSeq(stages, 1, Len(stages) - 1), Chain)
    /\ pc # "idle" => opc = "started"
    /\ (proxy_configured /\ Len(stages) > 0) => stages[1] = "bootstrap"
    /\ (SetupReturned /\ failed = "none" /\ proxy_configured) => stages = Chain

\* C9 witness: setup has run the whole chain.
C9_Witness == opc = "done" /\ stages = Chain

\* C10: after a setup whose install, acquire and start succeeded, the four
\* proxy variables are the local proxy URL and no_proxy / NO_PROXY the
\* exclusion list, whatever the environment held before the injection.
C10_EnvInjected ==
    (SetupReturned /\ StartSucceeded) =>
        /\ \A k \in ProxyKeys : environ[k] = proxy_url
        /\ environ["no_proxy"] = no_proxy
        /\ environ["NO_PROXY"] = no_proxy

\* C10 witness: setup has returned after overwriting variables the bootstrap
\* acceleration had set and one that was inherited.
C10_Witness ==
    /\ opc = "done"
    /\ backend
    /\ preInject["http_proxy"] = "turbo"
    /\ preInject["no_proxy"] = "inherited"
    /\ environ["http_proxy"] = proxy_url
    /\ environ["no_proxy"] = no_proxy

\* ------------------------------------- download_subscription, step by step
\* len(_SUBSCRIPTION_USER_AGENTS) User-Agents, each tried over the direct
\* and the proxy opener.
UserAgents == 5
Openers == 2
Attempts == UserAgents * Openers

\* download_subscription(config, config_file) is called.  Without a URL it
\* returns False at once.
call_fetch ==
    /\ fpc \in {"idle", "returned"}
    /\ fpre' = rt["config.yaml"]
    /\ fgot' = Absent
    /\ attempt' = 0
    /\ tried' = <<>>
    /\ IF subscription_url = ""
          THEN fpc' = "returned" /\ fret' = FALSE
          ELSE fpc' = "attempt" /\ fret' = "none"
    /\ UNCHANGED <<osVars, fileVars, callVars, histVars, orchVars,
                   patchVars, instVars, pipeVars, syncVars, raceVars>>

\* The loop variables at pass k (from 0): `for ua in _SUBSCRIPTION_USER_AGENTS`
\* outside, `for opener, label in [(direct_opener, ...), (proxy_opener, ...)]`
\* inside.
ua_of(k) == k \div Openers + 1
opener_of(k) == IF k % Openers = 0 THEN "direct" ELSE "proxy"

\* What a request may come to: it raises (Absent), or it answers with a body
\* below, at or above the size the code asks for.
Responses == {Absent, File(Small, "sub"), File(MinConfigSize, "sub")} \cup Payloads

\* fetch_attempt with a fault: the body's length is not looked at.
fetch_attempt_accepts_short ==
    /\ fpc = "attempt"
    /\ attempt < Attempts
    /\ attempt' = attempt + 1
    /\ \E resp \in Responses :
          /\ tried' = Append(tried, [ua |-> ua_of(attempt),
                                     opener |-> opener_of(attempt),
                                     size |-> resp.size])
          /\ IF ~exists(resp)
                THEN /\ fpc' = IF attempt + 1 = Attempts THEN "stale" ELSE "attempt"
                     /\ UNCHANGED <<rt, fret, fgot>>
                ELSE /\ rt' = [rt EXCEPT !["config.yaml"] = patch_config(resp)]
                     /\ fgot' = resp
                     /\ fret' = TRUE
                     /\ fpc' = "returned"
    /\ UNCHANGED <<osVars, pidfile, bin, bk, callVars, histVars, orchVars,
                   fpre, patchVars, instVars, pipeVars, syncVars, raceVars>>

\* One pass of the loop body: the request raises (refused, 403, timeout),
\* or answers with fewer than MinConfigSize bytes, or with a body that is
\* written to the config file and patched, which ends the call with True.
fetch_attempt ==
    /\ fpc = "attempt"
    /\ attempt < Attempts
    /\ attempt' = attempt + 1
    /\ \E resp \in Responses :
          /\ tried' = Append(tried, [ua |-> ua_of(attempt),
                                     opener |-> opener_of(attempt),
                                     size |-> resp.size])
          /\ IF ~exists(resp) \/ resp.size < MinConfigSize
                THEN /\ fpc' = IF attempt + 1 = Attempts THEN "stale" ELSE "attempt"
                     /\ UNCHANGED <<rt, fret, fgot>>
                ELSE /\ rt' = [rt EXCEPT !["config.yaml"] = patch_config(resp)]
                     /\ fgot' = resp
                     /\ fret' = TRUE
                     /\ fpc' = "returned"
    /\ UNCHANGED <<osVars, pidfile, bin, bk, callVars, histVars, orchVars,
                   fpre, patchVars, instVars, pipeVars, syncVars, raceVars>>

\* fetch_stale with a fault: any existing file counts as an old config, an
\* empty one included.
fetch_stale_any_file ==
    /\ fpc = "stale"
    /\ IF exists(rt["config.yaml"])
          THEN /\ rt' = [rt EXCEPT !["config.yaml"] = patch_config(@)]
               /\ fret' = TRUE
          ELSE /\ fret' = FALSE
               /\ UNCHANGED rt
    /\ fpc' = "returned"
    /\ UNCHANGED <<osVars, pidfile, bin, bk, callVars, histVars, orchVars,
                   attempt, fpre, fgot, tried, patchVars, instVars, pipeVars, syncVars, raceVars>>

\* After the loop: a config file that exists with more than 0 bytes is
\* patched and reused (True); else False.
fetch_stale ==
    /\ fpc = "stale"
    /\ IF exists(rt["config.yaml"]) /\ rt["config.yaml"].size > 0
          THEN /\ rt' = [rt EXCEPT !["config.yaml"] = patch_config(@)]
               /\ fret' = TRUE
          ELSE /\ fret' = FALSE
               /\ UNCHANGED rt
    /\ fpc' = "returned"
    /\ UNCHANGED <<osVars, pidfile, bin, bk, callVars, histVars, orchVars,
                   attempt, fpre, fgot, tried, patchVars, instVars, pipeVars, syncVars, raceVars>>

\* The config file between two calls: removed, emptied or edited by hand.
config_file_changes ==
    /\ fpc = "returned"
    /\ \E f \in {Absent, File(0, "old"), File(Small, "old"), File(Big, "junk")} :
          /\ f # rt["config.yaml"]
          /\ rt' = [rt EXCEPT !["config.yaml"] = f]
    /\ fpc' = "idle"
    /\ UNCHANGED <<osVars, pidfile, bin, bk, callVars, histVars, orchVars,
                   attempt, fret, fpre, fgot, tried, patchVars, instVars, pipeVars, syncVars, raceVars>>

\* A config directory as download_subscription may find it.
InitFetch ==
    /\ InitOS
    /\ InitCall
    /\ pidfile = NoPidFile
    /\ bin = "target"
    /\ rt \in {[f \in SyncFiles |-> IF f = "config.yaml" THEN c ELSE Absent] :
                  c \in {Absent, File(0, "old"), File(Small, "old"),
                         File(Big, "old"), File(Big, "junk")}}
    /\ bk = [f \in SyncFiles |-> Absent]
    /\ opc = "idle"
    /\ stages = <<>>
    /\ environ = [k \in EnvKeys |-> ""]
    /\ subscription_url \in {"", "url"}
    /\ turbo = "absent"
    /\ backend = FALSE
    /\ initialized = FALSE
    /\ healthy = "none"
    /\ failed = "none"
    /\ preInject = environ
    /\ InitNoFetch
    /\ InitNoPatch
    /\ InitNoInstall
    /\ InitNoPipeline
    /\ InitNoSync
    /\ InitNoRace

NextFetch ==
    \/ call_fetch
    \/ fetch_attempt
    \/ fetch_stale
    \/ config_file_changes

SpecFetch == InitFetch /\ [][NextFetch]_vars

\* --------------------------------------------- patch_config on a document
LegacyKeys == {"port", "socks-port", "redir-port", "tproxy-port"}

\* needle in hay, as Python's `in` on str.
Contains(hay, needle) ==
    \E i \in 1..(Len(hay) - Len(needle) + 1) :
        SubSeq(hay, i, i + Len(needle) - 1) = needle

\* Values of dns.listen as character strings: no listen entry, ":53",
\* "0.0.0.0:53", ":5353", "127.0.0.1:1053" and "[::1053]:53".
DnsListens ==
    {<<>>,
     <<":", "5", "3">>,
     <<"0", ".", "0", ".", "0", ".", "0", ":", "5", "3">>,
     <<":", "5", "3", "5", "3">>,
     <<"1", "2", "7", ".", "0", ".", "0", ".", "1", ":", "1", "0", "5", "3">>,
     <<"[", ":", ":", "1", "0", "5", "3", "]", ":", "5", "3">>}

\* Files that do not load as a mapping: empty, a list or a scalar, not YAML.
NonMappings ==
    [top : {"empty", "other", "invalid"}, legacy : {{}}, mixed : {"absent"},
     controller : {"absent"}, profile : {"absent"}, tun : {"absent"},
     dns : {"absent"}, listen : {<<>>}, forced : {FALSE}]

\* What yaml.safe_load makes of the file: a mapping, None (an empty file,
\* taken as {}), something else (a list, a scalar) or a parse error.  For a
\* mapping: the legacy port keys it has, its mixed-port (absent, some other
\* port, config.proxy_port), its external-controller (absent, some other
\* address, 127.0.0.1:api_port), its profile entry (absent, a mapping, a
\* scalar such as null), its tun entry (absent, a mapping with enable true
\* or not, a scalar), its dns entry (absent, a scalar, a mapping with the
\* listen value given), and whether the forced keys are set.
Docs ==
    [top : {"mapping"}, legacy : SUBSET LegacyKeys,
     mixed : {"absent", "other", "port"},
     controller : {"absent", "other", "loopback"},
     profile : {"absent", "mapping", "scalar"},
     tun : {"absent", "on", "off", "scalar"},
     dns : {"absent", "scalar"}, listen : {<<>>}, forced : {FALSE}]
    \cup
    [top : {"mapping"}, legacy : SUBSET LegacyKeys,
     mixed : {"absent", "other", "port"},
     controller : {"absent", "other", "loopback"},
     profile : {"absent", "mapping", "scalar"},
     tun : {"absent", "on", "off", "scalar"},
     dns : {"mapping"}, listen : DnsListens, forced : {FALSE}]
    \cup NonMappings

\* An exception inside the try block: safe_load fails, data has no
\* pop(key, default), or data["profile"] does not take item assignment.
patch_raises(d) == d.top \in {"invalid", "other"} \/ d.profile = "scalar"

\* The test on str(dns.get("listen", "")) that decides the rewrite.
dns_rewritten(l) ==
    /\ l # <<>>
    /\ Contains(l, <<":", "5", "3">>)
    /\ ~Contains(l, <<"1", "0", "5", "3">>)

\* The statements of the try block, in order.
patch_steps(d) ==
    LET loaded  == [d EXCEPT !.top = "mapping"]
        popped  == [loaded EXCEPT !.legacy = @ \ LegacyKeys]
        core    == [popped EXCEPT !.mixed = "port", !.controller = "loopback",
                                  !.forced = TRUE]
        profil  == [core EXCEPT !.profile = "mapping"]
        tunoff  == [profil EXCEPT !.tun = IF @ \in {"on", "off"} THEN "off" ELSE @]
        dnsfix  == IF tunoff.dns = "mapping" /\ dns_rewritten(tunoff.listen)
                   THEN [tunoff EXCEPT !.listen =
                            <<"1", "2", "7", ".", "0", ".", "0", ".", "1",
                              ":", "1", "0", "5", "3">>]
                   ELSE tunoff
    IN dnsfix

\* patch_config: the document in the file afterwards.  The file is written
\* by the last statement of the try block, so an exception leaves it as it
\* was.
patch_document(d) == IF patch_raises(d) THEN d ELSE patch_steps(d)

apply_patch ==
    /\ [doc EXCEPT !.forced = FALSE] \in Docs
    /\ docPre' = doc
    /\ doc' = patch_document(doc)
    /\ patchOk' = IF patch_raises(doc) THEN "no" ELSE "yes"
    /\ UNCHANGED <<osVars, fileVars, callVars, histVars, orchVars,
                   fetchVars, instVars, pipeVars, syncVars, raceVars>>

\* The file between two calls: written anew with something that is not a
\* mapping or with an empty mapping, or one entry of it edited.
Blank ==
    [top |-> "mapping", legacy |-> {}, mixed |-> "absent",
     controller |-> "absent", profile |-> "absent", tun |-> "absent",
     dns |-> "absent", listen |-> <<>>, forced |-> FALSE]
Edited(d) ==
    {[d EXCEPT !.legacy = v, !.forced = FALSE] : v \in SUBSET LegacyKeys}
    \cup {[d EXCEPT !.mixed = v, !.forced = FALSE] : v \in {"absent", "other", "port"}}
    \cup {[d EXCEPT !.controller = v, !.forced = FALSE] :
             v \in {"absent", "other", "loopback"}}
    \cup {[d EXCEPT !.profile = v, !.forced = FALSE] :
             v \in {"absent", "mapping", "scalar"}}
    \cup {[d EXCEPT !.tun = v, !.forced = FALSE] :
             v \in {"absent", "on", "off", "scalar"}}
    \cup {[d EXCEPT !.dns = v, !.listen = <<>>, !.forced = FALSE] :
             v \in {"absent", "scalar"}}
    \cup {[d EXCEPT !.dns = "mapping", !.listen = l, !.forced = FALSE] :
             l \in DnsListens}
document_replaced ==
    /\ patchOk # "none"
    /\ \E d \in (IF doc.top = "mapping" THEN Edited(doc) ELSE {Blank})
                 \cup NonMappings :
          /\ d # doc
          /\ doc' = d
    /\ docPre' = doc'
    /\ patchOk' = "none"
    /\ UNCHANGED <<osVars, fileVars, callVars, histVars, orchVars,
                   fetchVars, instVars, pipeVars, syncVars, raceVars>>

InitPatch ==
    /\ InitOS
    /\ InitCall
    /\ pidfile = NoPidFile
    /\ bin = "target"
    /\ rt = [f \in SyncFiles |-> Absent]
    /\ bk = [f \in SyncFiles |-> Absent]
    /\ InitNoOrch
    /\ InitNoFetch
    /\ doc \in Docs
    /\ docPre = doc
    /\ patchOk = "none"
    /\ InitNoInstall
    /\ InitNoPipeline
    /\ InitNoSync
    /\ InitNoRace

NextPatch ==
    \/ apply_patch
    \/ document_replaced

SpecPatch == InitPatch /\ [][NextPatch]_vars

\* ---------------------------------------------- install_mihomo, step by step
\* Version tags as character strings; they stand for tags shaped like
\* v1.19.1, v1.19.10 and v1.19.2.
Tags == {<<"v", "1">>, <<"v", "1", "0">>, <<"v", "2">>}

\* What `mihomo -v` prints for a binary of version t.
Banner(t) == <<"mihomo", " ">> \o t \o <<" ", "linux">>

\* check_installed_version: the run raising counts as False.
check_installed_version(b, target_version) ==
    b.state = "runs" /\ Contains(Banner(b.tag), target_version)

\* _validate_binary: return code 0 and "mihomo" in the output.
validate_binary(b) ==
    b.state = "runs" /\ Contains(Banner(b.tag), <<"mihomo">>)

\* Files the release server may send.
Artifacts == [present : {TRUE}, sha_ok : BOOLEAN, gzip_ok : BOOLEAN, runs : BOOLEAN]

\* install_mihomo(install_dir, version) is called.
call_install ==
    /\ ipc \in {"idle", "returned"}
    /\ ipc' = "check"
    /\ binPre' = binary
    /\ prevRet' = iret
    /\ prevOps' = netops
    /\ netops' = 0
    /\ iret' = "none"
    /\ artifact' = NoGz
    /\ ifail' = "none"
    /\ UNCHANGED <<osVars, fileVars, callVars, histVars, orchVars,
                   version, binary, gz, known, fetchVars, patchVars, pipeVars, syncVars, raceVars>>

\* install_check with a fault: the installed binary is never reused.
install_check_always_downloads ==
    /\ ipc = "check"
    /\ binary' = NoBinary
    /\ ipc' = "download"
    /\ UNCHANGED <<osVars, fileVars, callVars, histVars, orchVars,
                   version, gz, known, netops, iret, binPre, prevRet, prevOps,
                   artifact, ifail, fetchVars, patchVars, pipeVars, syncVars, raceVars>>

\* if bin_path.exists(): a matching version returns True, any other binary
\* is unlinked.
install_check ==
    /\ ipc = "check"
    /\ IF binary.state # "absent" /\ check_installed_version(binary, version)
          THEN /\ iret' = "True"
               /\ ipc' = "returned"
               /\ UNCHANGED binary
          ELSE /\ binary' = NoBinary
               /\ ipc' = "download"
               /\ UNCHANGED iret
    /\ UNCHANGED <<osVars, fileVars, callVars, histVars, orchVars,
                   version, gz, known, netops, binPre, prevRet, prevOps,
                   artifact, ifail, fetchVars, patchVars, pipeVars, syncVars, raceVars>>

\* The except branch: both files are unlinked, False.
install_fails(step) ==
    /\ ifail' = step
    /\ gz' = NoGz
    /\ binary' = NoBinary
    /\ iret' = "False"
    /\ ipc' = "returned"

\* urllib.request.urlretrieve(url, gz_path): raises, or leaves the file the
\* server sent.
install_download ==
    /\ ipc = "download"
    /\ netops' = netops + 1
    /\ \/ /\ install_fails("download")
          /\ UNCHANGED artifact
       \/ \E a \in Artifacts :
             /\ gz' = a
             /\ artifact' = a
             /\ ipc' = "sha"
             /\ UNCHANGED <<binary, iret, ifail>>
    /\ UNCHANGED <<osVars, fileVars, callVars, histVars, orchVars,
                   version, known, binPre, prevRet, prevOps,
                   fetchVars, patchVars, pipeVars, syncVars, raceVars>>

\* The SHA-256 comparison, made only when the table has a digest.
install_sha ==
    /\ ipc = "sha"
    /\ IF known /\ ~gz.sha_ok
          THEN install_fails("sha")
          ELSE /\ ipc' = "gunzip"
               /\ UNCHANGED <<gz, binary, iret, ifail>>
    /\ UNCHANGED <<osVars, fileVars, callVars, histVars, orchVars,
                   version, known, netops, binPre, prevRet, prevOps, artifact,
                   fetchVars, patchVars, pipeVars, syncVars, raceVars>>

\* gzip.open ... copyfileobj, chmod, unlink of the .gz.
install_gunzip ==
    /\ ipc = "gunzip"
    /\ IF ~gz.gzip_ok
          THEN install_fails("gunzip")
          ELSE /\ binary' = [state |-> IF gz.runs THEN "runs" ELSE "broken",
                              tag |-> version]
               /\ gz' = NoGz
               /\ ipc' = "validate"
               /\ UNCHANGED <<iret, ifail>>
    /\ UNCHANGED <<osVars, fileVars, callVars, histVars, orchVars,
                   version, known, netops, binPre, prevRet, prevOps, artifact,
                   fetchVars, patchVars, pipeVars, syncVars, raceVars>>

\* install_validate with a fault: a binary that fails the validation run is
\* left in place.
install_validate_leaves_binary ==
    /\ ipc = "validate"
    /\ IF ~validate_binary(binary)
          THEN /\ ifail' = "validate"
               /\ iret' = "False"
               /\ ipc' = "returned"
               /\ UNCHANGED <<gz, binary>>
          ELSE /\ iret' = "True"
               /\ ipc' = "returned"
               /\ UNCHANGED <<gz, binary, ifail>>
    /\ UNCHANGED <<osVars, fileVars, callVars, histVars, orchVars,
                   version, known, netops, binPre, prevRet, prevOps, artifact,
                   fetchVars, patchVars, pipeVars, syncVars, raceVars>>

\* if not _validate_binary(bin_path): raise; else True.
install_validate ==
    /\ ipc = "validate"
    /\ IF ~validate_binary(binary)
          THEN install_fails("validate")
          ELSE /\ iret' = "True"
               /\ ipc' = "returned"
               /\ UNCHANGED <<gz, binary, ifail>>
    /\ UNCHANGED <<osVars, fileVars, callVars, histVars, orchVars,
                   version, known, netops, binPre, prevRet, prevOps, artifact,
                   fetchVars, patchVars, pipeVars, syncVars, raceVars>>

\* Binaries install_mihomo may find at the install path.
Binaries == {NoBinary} \cup [state : {"runs", "broken"}, tag : Tags]

\* Between two calls somebody else puts another binary at the install path.
binary_replaced ==
    /\ ipc = "returned"
    /\ \E b \in Binaries : b # binary /\ binary' = b
    /\ ipc' = "idle"
    /\ iret' = "none"
    /\ UNCHANGED <<osVars, fileVars, callVars, histVars, orchVars,
                   version, gz, known, netops, binPre, prevRet, prevOps,
                   artifact, ifail, fetchVars, patchVars, pipeVars, syncVars, raceVars>>

\* An install directory as install_mihomo may find it; a .gz may be left
\* from a run that was killed.
InitInstall ==
    /\ InitOS
    /\ InitCall
    /\ pidfile = NoPidFile
    /\ bin = "absent"
    /\ rt = [f \in SyncFiles |-> Absent]
    /\ bk = [f \in SyncFiles |-> Absent]
    /\ InitNoOrch
    /\ InitNoFetch
    /\ InitNoPatch
    /\ InitNoPipeline
    /\ ipc = "idle"
    /\ version \in Tags
    /\ binary \in Binaries
    /\ gz \in {NoGz, [present |-> TRUE, sha_ok |-> FALSE, gzip_ok |-> FALSE,
                       runs |-> FALSE]}
    /\ known \in BOOLEAN
    /\ netops = 0
    /\ iret = "none"
    /\ binPre = binary
    /\ prevRet = "none"
    /\ prevOps = 0
    /\ artifact = NoGz
    /\ ifail = "none"
    /\ InitNoSync
    /\ InitNoRace

NextInstall ==
    \/ call_install
    \/ install_check
    \/ install_download
    \/ install_sha
    \/ install_gunzip
    \/ install_validate
    \/ binary_replaced

SpecInstall == InitInstall /\ [][NextInstall]_vars

\* --------------------------------------------------- shutdown.py main()
\* execute("sync", context) after setup_network(): the plugins' sync methods
\* run; one that raises ends the process there.
shutdown_sync ==
    /\ opc = "done"
    /\ \E outcome \in {"returns", "raises"} :
          opc' = IF outcome = "returns" THEN "stop_proxy" ELSE "raised"
    /\ UNCHANGED <<osVars, fileVars, callVars, histVars, stages, environ,
                   subscription_url, turbo, backend, initialized, healthy,
                   failed, preInject>>
    /\ UNCHANGED auxVars

\* stop_proxy(): if self._backend: self._backend.stop()
shutdown_stop_proxy ==
    /\ opc = "stop_proxy"
    /\ pc = "idle"
    /\ IF backend
          THEN /\ enter_stop("caller")
               /\ op' = "stop"
               /\ opc' = "stopping"
          ELSE /\ opc' = "exit"
               /\ UNCHANGED <<pc, op, retTo, n, target, sig, hit, found,
                              sawExit, stopErr, entryPid>>
    /\ UNCHANGED <<osVars, fileVars, child, ret, waitRes, childDead, warned,
                   stages, environ, subscription_url, turbo, backend,
                   initialized, healthy, failed, preInject>>
    /\ UNCHANGED auxVars

\* stop() has returned: self._backend = None
shutdown_stopped ==
    /\ opc = "stopping"
    /\ pc = "idle"
    /\ backend' = FALSE
    /\ opc' = "exit"
    /\ UNCHANGED <<osVars, fileVars, callVars, histVars, stages, environ,
                   subscription_url, turbo, initialized, healthy,
                   failed, preInject>>
    /\ UNCHANGED auxVars

\* main() returns and the process ends: its zombies are reaped, a child
\* that lives is re-parented.
shutdown_exit ==
    /\ opc = "exit"
    /\ kids' = {}
    /\ proc' = [p \in Pids |-> IF proc[p] = "zombie" THEN "free" ELSE proc[p]]
    /\ opc' = "exited"
    /\ UNCHANGED <<listener, fileVars, callVars, histVars, stages, environ,
                   subscription_url, turbo, backend, initialized, healthy,
                   failed, preInject>>
    /\ UNCHANGED auxVars

NextShutdown ==
    \/ OrchStep
    \/ SupStep
    \/ EngineStep
    \/ shutdown_sync
    \/ shutdown_stop_proxy
    \/ shutdown_stopped
    \/ shutdown_exit

SpecShutdown == InitOrch /\ [][NextShutdown]_vars

\* ------------------------------------------------------ main.py execute()
\* create_pipeline(): the plugins by name, in declared order.
Pipeline == <<"system", "git_config", "torch_engine", "comfy_core",
              "userdata", "nodes", "models">>
Names == {Pipeline[i] : i \in 1..Len(Pipeline)}

\* list(reversed(pipeline))
Reverse(q) == [i \in 1..Len(q) |-> q[Len(q) + 1 - i]]

\* call_execute with a fault: sync walks the pipeline in declared order.
call_execute_sync_forward ==
    /\ epc = "idle"
    /\ called' = <<>>
    /\ IF only # ""
          THEN IF only \in Names
                  THEN epc' = "only" /\ queue' = <<only>>
                  ELSE epc' = "exit1" /\ queue' = <<>>
          ELSE epc' = "loop" /\ queue' = Pipeline
    /\ UNCHANGED <<osVars, fileVars, callVars, histVars, orchVars,
                   action, until, only, fetchVars, patchVars, instVars, syncVars, raceVars>>

\* execute(action, context, until, only) up to the loop: the pipeline is
\* reversed for sync; with --only the named plugin is looked up and a name
\* that is not in the pipeline ends in sys.exit(1).
call_execute ==
    /\ epc = "idle"
    /\ called' = <<>>
    /\ LET pipeline == IF action = "sync" THEN Reverse(Pipeline) ELSE Pipeline
       IN IF only # ""
             THEN IF only \in Names
                     THEN epc' = "only" /\ queue' = <<only>>
                     ELSE epc' = "exit1" /\ queue' = <<>>
             ELSE epc' = "loop" /\ queue' = pipeline
    /\ UNCHANGED <<osVars, fileVars, callVars, histVars, orchVars,
                   action, until, only, fetchVars, patchVars, instVars, syncVars, raceVars>>

\* --only: the one plugin's method is called, then return.  A plugin method
\* that raises ends execute() with its exception.
execute_only ==
    /\ epc = "only"
    /\ called' = Append(called, Head(queue))
    /\ queue' = <<>>
    /\ \E outcome \in {"returns", "raises"} :
          epc' = IF outcome = "returns" THEN "returned" ELSE "raised"
    /\ UNCHANGED <<osVars, fileVars, callVars, histVars, orchVars,
                   action, until, only, fetchVars, patchVars, instVars, syncVars, raceVars>>

\* One round of `for addon in pipeline`: the method is called; after it
\* the loop breaks if this is the --until plugin.  When the loop is over
\* the artifacts are saved (setup only, failures caught) and execute()
\* returns.
execute_step ==
    /\ epc = "loop"
    /\ queue # <<>>
    /\ called' = Append(called, Head(queue))
    /\ \/ /\ epc' = "raised"
          /\ UNCHANGED queue
       \/ IF (until # "" /\ Head(queue) = until) \/ Tail(queue) = <<>>
             THEN epc' = "returned" /\ queue' = <<>>
             ELSE epc' = "loop" /\ queue' = Tail(queue)
    /\ UNCHANGED <<osVars, fileVars, callVars, histVars, orchVars,
                   action, until, only, fetchVars, patchVars, instVars, syncVars, raceVars>>

\* Command lines main() may pass on: any action, --until and --only absent,
\* a plugin name, or a name no plugin has.
InitPipeline ==
    /\ InitOS
    /\ InitCall
    /\ pidfile = NoPidFile
    /\ bin = "absent"
    /\ rt = [f \in SyncFiles |-> Absent]
    /\ bk = [f \in SyncFiles |-> Absent]
    /\ InitNoOrch
    /\ InitNoFetch
    /\ InitNoPatch
    /\ InitNoInstall
    /\ epc = "idle"
    /\ action \in {"setup", "start", "sync"}
    /\ until \in {""} \cup Names \cup {"unknown"}
    /\ only \in {""} \cup Names \cup {"unknown"}
    /\ queue = <<>>
    /\ called = <<>>
    /\ InitNoSync
    /\ InitNoRace

NextPipeline ==
    \/ call_execute
    \/ execute_only
    \/ execute_step

SpecPipeline == InitPipeline /\ [][NextPipeline]_vars

\* C11: whatever fails inside it (install, the restore copy, fetch, patch,
\* the backup copy, start, the health check), no exception leaves setup().
C11_SetupNeverRaises == opc # "raised"

Before(a, b) ==
    \E i, j \in 1..Len(stages) : i < j /\ stages[i] = a /\ stages[j] = b

\* C17: with no subscription URL and a usable backup config, the Acquire
\* stage reuses the restored config and reports success, and a setup that
\* returns has called start().
C17_BackupOnlyReachesStart ==
    (subscription_url = "" /\ has_backup /\ Invoked("acquire")) =>
        /\ failed # "acquire"
        /\ SetupReturned => Invoked("start")

\* C18 as stated: in a setup in which start() returned True, a backup is
\* taken after that start.
C18_BackupAfterStart ==
    (SetupReturned /\ StartSucceeded) => Before("start", "backup")

\* C18 amended: the backup is taken once per setup, after Acquire succeeded
\* and before start() is called, whatever start() then returns; when the
\* stage ends, every non-empty runtime sync file is in the backup (if the
\* runtime config has MinConfigSize bytes); nothing is backed up after the
\* start.
C18_BackupBeforeStart ==
    /\ Invoked("start") => (Before("acquire", "backup") /\ Before("backup", "start"))
    /\ ~Before("start", "backup")
    /\ (opc = "start" /\ rt["config.yaml"].size >= MinConfigSize) =>
           \A f \in SyncFiles : rt[f].size > 0 => bk[f] = rt[f]

\* C18 witness: setup has returned after a successful start, the backup
\* holding the config that Acquire had written and patched before it.
C18_Witness ==
    /\ opc = "done"
    /\ StartSucceeded
    /\ bk["config.yaml"] = rt["config.yaml"]
    /\ bk["config.yaml"].body = "sub"
    /\ bk["config.yaml"].patched

\* ------------------------------------------------- shutdown (SpecShutdown)
\* C19: when shutdown.py has run setup_network, the sync pipeline and
\* stop_proxy to the end, no engine runs and no PID record is left,
\* whether setup had succeeded or fallen back.
C19_ShutdownLeavesNothing ==
    opc = "exited" => (engines = {} /\ pidfile = NoPidFile)

\* ------------------------------------------------------- fetch (SpecFetch)
FetchReturned == fpc = "returned"
AllAttemptsFailed == FetchReturned /\ attempt = Attempts /\ fgot = Absent

\* C12: when all Attempts transport attempts failed, download_subscription
\* returns True exactly when the config file existed non-empty before the
\* call; then the file holds its earlier body, patched if it parses and
\* untouched otherwise; on False the file is as it was, so none is created.
C12_StaleReuse ==
    AllAttemptsFailed =>
        /\ fret = TRUE <=> (exists(fpre) /\ fpre.size > 0)
        /\ fret = TRUE =>
              /\ rt["config.yaml"].body = fpre.body
              /\ rt["config.yaml"].patched = (fpre.patched \/ parses(fpre))
              /\ ~parses(fpre) => rt["config.yaml"] = fpre
        /\ fret = FALSE => rt["config.yaml"] = fpre

\* C12 witness: every attempt failed and the old config was reused, patched.
C12_Witness ==
    /\ AllAttemptsFailed
    /\ fret = TRUE
    /\ fpre = File(Big, "old")
    /\ rt["config.yaml"].patched

\* ------------------------------------------------------- patch (SpecPatch)
\* C13: for every document that has a legacy port key, after patch_config
\* none of the legacy port keys is left and mixed-port is config.proxy_port.
C13_LegacyPortsRemoved ==
    (patchOk # "none" /\ docPre.top = "mapping" /\ docPre.legacy # {}) =>
        (doc.legacy = {} /\ doc.mixed = "port")

\* --------------------------------------------------- install (SpecInstall)
InstallReturned == ipc = "returned"

C15_DifferentVersionReplaced ==
    (InstallReturned /\ binPre.state = "runs" /\ binPre.tag # version) =>
        (netops = 1 /\ binary # binPre)

\* C16: a call in which a step failed (the download, the SHA-256 comparison
\* when the table has a digest, the decompression, the validation run)
\* returns False after its one download, with neither the .gz nor a binary
\* left; and a call that downloaded returns True only if none of them
\* failed.
C16_FailureCleansUp ==
    /\ (InstallReturned /\ ifail # "none") =>
           /\ iret = "False"
           /\ netops = 1
           /\ ~gz.present
           /\ binary = NoBinary
    /\ (InstallReturned /\ netops = 1) =>
           (iret = "True" <=> (/\ artifact.present
                               /\ known => artifact.sha_ok
                               /\ artifact.gzip_ok
                               /\ artifact.runs))
    /\ (InstallReturned /\ iret = "False") => ifail # "none"

\* C16 witness: the validation run of a downloaded binary failed and the
\* call has returned False.
C16_Witness ==
    /\ InstallReturned
    /\ ifail = "validate"
    /\ iret = "False"
    /\ binary = NoBinary

\* ------------------------------------------------- pipeline (SpecPipeline)
\* The pipeline in the order the action walks it, and its part up to and
\* including plugin x.
Walk == IF action = "sync" THEN Reverse(Pipeline) ELSE Pipeline
UpTo(x) ==
    LET i == CHOOSE k \in 1..Len(Walk) : Walk[k] = x
    IN SubSeq(Walk, 1, i)
Expected ==
    IF only # "" THEN (IF only \in Names THEN <<only>> ELSE <<>>)
    ELSE IF until \in Names THEN UpTo(until)
    ELSE Walk

\* C20: execute calls the plugins in declared order for setup and start and
\* in reverse order for sync; with --until X those up to and including X and
\* none after; with --only X that plugin alone; it exits with status 1,
\* having called none, exactly when --only names no plugin.  A run that a
\* plugin cuts short by raising has called a prefix of these.
C20_PipelineOrder ==
    /\ IsPrefix(called, Expected)
    /\ epc = "returned" => called = Expected
    /\ epc = "exit1" => (called = <<>> /\ only # "" /\ only \notin Names)
    /\ (epc # "idle" /\ only # "" /\ only \notin Names) => epc = "exit1"

\* C20 witness: a sync with --until comfy_core has returned after calling
\* the last four plugins in reverse order.
C20_Witness ==
    /\ epc = "returned"
    /\ action = "sync"
    /\ only = ""
    /\ until = "comfy_core"
    /\ called = <<"models", "nodes", "userdata", "comfy_core">>

\* C21: download_subscription makes its requests one after another in a fixed
\* order, User-Agent by User-Agent and for each the direct opener before the
\* proxy opener, at most |User-Agents| x 2 of them; a body shorter than the
\* minimum size is rejected; the first accepted body is written and patched,
\* the call returns True and no further request is made.
Rejected(t) == t.size < MinConfigSize
C21_FetchOrder ==
    /\ Len(tried) = attempt
    /\ Len(tried) <= UserAgents * 2
    /\ \A i \in 1..Len(tried) :
          /\ tried[i].ua = (i - 1) \div 2 + 1
          /\ tried[i].opener = (IF i % 2 = 1 THEN "direct" ELSE "proxy")
          /\ i < Len(tried) => Rejected(tried[i])
    /\ fpc = "attempt" => \A i \in 1..Len(tried) : Rejected(tried[i])
    /\ (fgot # Absent) <=> (tried # <<>> /\ ~Rejected(tried[Len(tried)]))
    /\ (FetchReturned /\ fgot # Absent) =>
          (/\ fret = TRUE
           /\ fgot.size = tried[Len(tried)].size
           /\ rt["config.yaml"] = patch_config(fgot))
C21_Witness ==
    /\ FetchReturned
    /\ fret = TRUE
    /\ Len(tried) = 4
    /\ tried[3].size = Small
    /\ tried[4].size = MinConfigSize

\* C22 as stated: a start whose readiness wait ran out with the port closed
\* is a failed start, and setup takes the fallback.
StartConsumed == Invoked("start") /\ opc \notin {"start", "started"}
C22_NoPortIsStartFailure ==
    (StartConsumed /\ waitRes = "timeout") => failed = "start"

\* C22: a start whose readiness wait ran out is a failed start, with the
\* fallback taken, exactly when the spawned process had exited by then; when
\* the process is alive, start() returns True with the warning and setup
\* goes on to the health check.
C22_StartFailureIsExit ==
    (StartConsumed /\ waitRes = "timeout") =>
        /\ childDead => (ret = FALSE /\ failed = "start" /\ ~Invoked("health"))
        /\ ~childDead => (/\ ret = TRUE
                          /\ warned
                          /\ failed # "start"
                          /\ opc = "health" \/ Invoked("health"))
C22_Witness ==
    /\ SetupReturned
    /\ waitRes = "timeout"
    /\ ~childDead
    /\ listener = 0
    /\ warned
    /\ Invoked("health")

\* C23: after patch_config has run on any document, external-controller is
\* 127.0.0.1:api_port, TUN is not enabled and DNS does not listen on port 53.
Port53(l) == Len(l) >= 3 /\ SubSeq(l, Len(l) - 2, Len(l)) = <<":", "5", "3">>
C23_PatchedIsConfined ==
    patchOk # "none" =>
        /\ doc.controller = "loopback"
        /\ doc.tun # "on"
        /\ ~(doc.dns = "mapping" /\ Port53(doc.listen))

\* ------------------------------ one process: setup(), then further calls
\* setup() on a manager that is initialized: `if self._initialized: return`.
\* With a fault: the flag is not looked at and the chain is entered again.
orch_setup_again_reenters ==
    /\ opc = "done"
    /\ setups < MaxAgain
    /\ setups' = setups + 1
    /\ opc' = IF proxy_configured THEN "bootstrap" ELSE "fallback"
    /\ UNCHANGED <<osVars, fileVars, callVars, histVars, stages, environ,
                   subscription_url, turbo, backend, initialized, healthy,
                   failed, preInject>>
    /\ UNCHANGED <<fetchVars, patchVars, instVars, pipeVars, syncs, lastBackup, rt0, raceVars>>

\* setup() on a manager that is initialized returns at once.
orch_setup_again ==
    /\ opc = "done"
    /\ initialized
    /\ setups < MaxAgain
    /\ setups' = setups + 1
    /\ UNCHANGED <<osVars, fileVars, callVars, histVars, orchVars>>
    /\ UNCHANGED <<fetchVars, patchVars, instVars, pipeVars, syncs, lastBackup, rt0, raceVars>>

\* sync_config goes on to the copy loop: _build_proxy_config() is not None
\* and the runtime config.yaml exists.
sync_proceeds == proxy_configured /\ exists(rt["config.yaml"])

\* The files sync_config copies: non-empty in the runtime directory and not
\* byte-identical in the backup.
sync_writes ==
    IF sync_proceeds
    THEN {f \in SyncFiles : exists(rt[f]) /\ rt[f].size > 0 /\ bk[f] # rt[f]}
    ELSE {}

\* sync_config(), called once setup_network() has returned (main.py, the
\* sync action).
sync_config ==
    /\ opc = "done"
    /\ pc = "idle"
    /\ syncs < MaxSyncs
    /\ syncs' = syncs + 1
    /\ bk' = [f \in SyncFiles |-> IF f \in sync_writes THEN rt[f] ELSE bk[f]]
    /\ lastBackup' = [op |-> "sync", wrote |-> sync_writes,
                      same |-> {f \in sync_writes : bk[f] = rt[f]},
                      missed |-> {f \in SyncFiles \ sync_writes :
                                    exists(rt[f]) /\ rt[f].size > 0 /\ bk[f] # rt[f]},
                      proceeded |-> sync_proceeds]
    /\ UNCHANGED <<osVars, pidfile, bin, rt, callVars, histVars, orchVars>>
    /\ UNCHANGED <<fetchVars, patchVars, instVars, pipeVars, setups, rt0, raceVars>>

\* A running engine stores the node selection in cache.db.
engine_writes_cache ==
    /\ engines # {}
    /\ rt["cache.db"] # File(Small, "sel")
    /\ rt' = [rt EXCEPT !["cache.db"] = File(Small, "sel")]
    /\ UNCHANGED <<osVars, pidfile, bin, bk, callVars, histVars, orchVars>>
    /\ UNCHANGED auxVars

\* A process that calls setup_network() and then sync_proxy_config(), on an
\* instance without inherited proxy variables or turbo script.
InitSession ==
    /\ InitInstance
    /\ environ = [k \in EnvKeys |-> ""]
    /\ turbo = "absent"
    /\ InitNoFetch
    /\ InitNoPatch
    /\ InitNoInstall
    /\ InitNoPipeline
    /\ InitNoRace
    /\ setups = 0
    /\ syncs = 0
    /\ lastBackup = NoBackupOp
    /\ rt0 = rt

NextSession ==
    \/ OrchStep
    \/ SupStep
    \/ EngineStep
    \/ orch_setup_again
    \/ sync_config
    \/ engine_writes_cache

SpecSession == InitSession /\ [][NextSession]_vars

\* C24: once a setup() call has completed, the state machine is not entered
\* again in the process: every later setup() invokes no stage, so setup is
\* at rest and no stage has been invoked twice.
C24_SetupEnteredOnce ==
    initialized =>
        /\ opc = "done"
        /\ \A i, j \in 1..Len(stages) : stages[i] = stages[j] => i = j
C24_Witness ==
    /\ initialized
    /\ setups = 2
    /\ Invoked("start")
    /\ ret = TRUE

\* C25: no backup operation, _backup_config in the setup chain or
\* sync_config, writes a file whose copy in the backup is byte-identical;
\* after sync_config every non-empty runtime sync file has an identical copy
\* in the backup, so that a second sync_config with nothing changed writes
\* nothing.
NonEmpty(f) == exists(f) /\ f.size > 0
C25_BackupSkipsIdentical ==
    lastBackup.op # "none" =>
        /\ lastBackup.same = {}
        /\ lastBackup.op = "sync" => lastBackup.missed = {}

\* The last sync_config went on to its copy loop.
SyncProceeded == lastBackup.op = "sync" /\ lastBackup.proceeded

\* C26: in a process that ran setup_network() and then sync_proxy_config(),
\* a non-empty cache.db the runtime directory held when the process began,
\* or one the engine wrote since, is what the backup holds after a sync
\* that copied: the restore stage has not put the older backup in its place.
C26_RuntimeStateReachesBackup ==
    (SyncProceeded /\ NonEmpty(rt0["cache.db"])) =>
        bk["cache.db"] \in {rt0["cache.db"], File(Small, "sel")}

\* C27: when download_subscription returns True and a config file existed
\* before the call, the file afterwards is a patched document: an existing
\* config is never replaced by a downloaded body that passes the size check
\* and cannot be parsed and patched.
C27_SuccessLeavesPatched ==
    (FetchReturned /\ fret = TRUE /\ exists(fpre)) =>
        /\ rt["config.yaml"].patched
        /\ ~(fgot # Absent /\ ~parses(fgot) /\ rt["config.yaml"] = fgot)

\* C28: stop() signals only a process the supervisor spawned, and a start()
\* that returns False because the process it spawned had exited leaves no
\* PID record naming that process: the record exists only while its process
\* may be alive.
C28_PidRecordTracksEngine ==
    /\ hit # "foreign"
    /\ (StartReturned /\ childDead) => pidfile # PidFile(child)

\* C29: whenever start() returns True without the readiness warning, the
\* process it has just spawned is alive and is the one listening on the
\* proxy port, also when start() first stopped an earlier instance.
C29_ReadyMeansChildListens ==
    [][(pc = "start_wait_for_port" /\ pc' = "idle" /\ ret' = TRUE /\ ~warned')
          => (proc'[child'] = "engine" /\ listener' = child')]_vars

\* --------------------------- two processes inside start() at the same time
\* What a step of one process leaves alone besides the process table, the
\* port and the PID record.
raceFrame == <<bin, rt, bk, callVars, histVars, orchVars,
               fetchVars, patchVars, instVars, pipeVars, syncVars>>

\* Process i calls backend.start(); binary and config file are there.
race_call(i) ==
    /\ rpc[i] = "idle"
    /\ rpc' = [rpc EXCEPT ![i] = "is_running"]
    /\ UNCHANGED <<osVars, pidfile, rchild, rtarget, rret, raceFrame>>

\* if self.is_running(): self.stop() ...
race_is_running(i) ==
    /\ rpc[i] = "is_running"
    /\ rpc' = [rpc EXCEPT ![i] = IF is_running THEN "stop_read" ELSE "spawn"]
    /\ UNCHANGED <<osVars, pidfile, rchild, rtarget, rret, raceFrame>>

\* stop(): pid = self._read_pid(); None: unlink and return True.
race_stop_read(i) ==
    /\ rpc[i] = "stop_read"
    /\ IF read_pid = 0
          THEN /\ pidfile' = NoPidFile
               /\ rpc' = [rpc EXCEPT ![i] = "spawn"]
               /\ UNCHANGED rtarget
          ELSE /\ rtarget' = [rtarget EXCEPT ![i] = read_pid]
               /\ rpc' = [rpc EXCEPT ![i] = "stop_term"]
               /\ UNCHANGED pidfile
    /\ UNCHANGED <<osVars, rchild, rret, raceFrame>>

\* os.kill(pid, SIGTERM): ProcessLookupError unlinks the record; any other
\* error leaves it; start() goes on whatever stop() returned.
race_stop_term(i) ==
    /\ rpc[i] = "stop_term"
    /\ CASE kill_error(rtarget[i]) = "ProcessLookupError" ->
              /\ pidfile' = NoPidFile
              /\ rpc' = [rpc EXCEPT ![i] = "spawn"]
         [] kill_error(rtarget[i]) = "PermissionError" ->
              /\ rpc' = [rpc EXCEPT ![i] = "spawn"]
              /\ UNCHANGED pidfile
         [] OTHER ->
              /\ rpc' = [rpc EXCEPT ![i] = "stop_wait"]
              /\ UNCHANGED pidfile
    /\ UNCHANGED <<osVars, rchild, rtarget, rret, raceFrame>>

\* The exit polls, SIGKILL for a process that is still there after them,
\* the unlink of the record as it then is, and _wait_port_free.
race_stop_wait(i) ==
    /\ rpc[i] = "stop_wait"
    /\ IF proc[rtarget[i]] = "engine"
          THEN /\ proc' = died(rtarget[i])
               /\ listener' = IF listener = rtarget[i] THEN 0 ELSE listener
          ELSE UNCHANGED <<proc, listener>>
    /\ pidfile' = NoPidFile
    /\ rpc' = [rpc EXCEPT ![i] = "spawn"]
    /\ UNCHANGED <<kids, rchild, rtarget, rret, raceFrame>>

\* subprocess.Popen(...): a child with a free pid, or an exception (False).
race_spawn(i) ==
    /\ rpc[i] = "spawn"
    /\ \/ /\ rpc' = [rpc EXCEPT ![i] = "done"]
          /\ rret' = [rret EXCEPT ![i] = "False"]
          /\ UNCHANGED <<proc, kids, rchild>>
       \/ \E p \in Pids :
             /\ proc[p] = "free"
             /\ proc' = [proc EXCEPT ![p] = "engine"]
             /\ kids' = kids \cup {p}
             /\ rchild' = [rchild EXCEPT ![i] = p]
             /\ rpc' = [rpc EXCEPT ![i] = "record"]
             /\ UNCHANGED rret
    /\ UNCHANGED <<listener, pidfile, rtarget, raceFrame>>

\* self._pid_file.write_text(str(process.pid))
race_record(i) ==
    /\ rpc[i] = "record"
    /\ pidfile' = PidFile(rchild[i])
    /\ rpc' = [rpc EXCEPT ![i] = "wait"]
    /\ UNCHANGED <<osVars, rchild, rtarget, rret, raceFrame>>

\* _wait_for_port: True once anything listens; at the deadline
\* process.poll() reaps an exited child (False), a live one means True.
race_wait(i) ==
    /\ rpc[i] = "wait"
    /\ \/ /\ listener # 0
          /\ rret' = [rret EXCEPT ![i] = "True"]
          /\ UNCHANGED <<proc, kids>>
       \/ /\ listener = 0
          /\ IF proc[rchild[i]] = "zombie"
                THEN /\ proc' = [proc EXCEPT ![rchild[i]] = "free"]
                     /\ kids' = kids \ {rchild[i]}
                     /\ rret' = [rret EXCEPT ![i] = "False"]
                ELSE /\ rret' = [rret EXCEPT ![i] =
                                    IF proc[rchild[i]] = "engine" THEN "True" ELSE "False"]
                     /\ UNCHANGED <<proc, kids>>
    /\ rpc' = [rpc EXCEPT ![i] = "done"]
    /\ UNCHANGED <<listener, pidfile, rchild, rtarget, raceFrame>>

\* The instance as the two processes find it: no engine, with or without a
\* stale PID record, or the engine of an earlier run, named by the record.
InitRace ==
    /\ InitCall
    /\ kids = {}
    /\ \/ /\ proc = [p \in Pids |-> "free"]
          /\ listener = 0
          /\ pidfile \in {NoPidFile, BadPidFile, PidFile(1)}
       \/ /\ proc = [p \in Pids |-> IF p = 1 THEN "engine" ELSE "free"]
          /\ listener \in {0, 1}
          /\ pidfile = PidFile(1)
    /\ bin = "target"
    /\ rt = [f \in SyncFiles |-> IF f = "config.yaml" THEN ConfigA ELSE Absent]
    /\ bk = [f \in SyncFiles |-> Absent]
    /\ InitNoOrch
    /\ InitNoAux

NextRace ==
    \/ \E i \in Racers : race_call(i)
    \/ \E i \in Racers : race_is_running(i)
    \/ \E i \in Racers : race_stop_read(i)
    \/ \E i \in Racers : race_stop_term(i)
    \/ \E i \in Racers : race_stop_wait(i)
    \/ \E i \in Racers : race_spawn(i)
    \/ \E i \in Racers : race_record(i)
    \/ \E i \in Racers : race_wait(i)
    \/ \E p \in Pids : engine_exits(p)
    \/ \E p \in Pids : engine_listens(p)

SpecRace == InitRace /\ [][NextRace]_vars

\* C30: when two processes have run start() on the same ProxyConfig at the
\* same time and both have returned, at most one engine is alive and the
\* PID record names it: no live engine is left that the record does not
\* name.
BothDone == \A i \in Racers : rpc[i] = "done"
C30_RaceLeavesOneNamedEngine ==
    BothDone =>
        /\ Cardinality(engines) <= 1
        /\ \A p \in engines : pidfile = PidFile(p)

====
